---------------------------- MODULE Spec2Model ----------------------------
(***************************************************************************)
(* A model of ollama-tools: the sandboxed tool executor                    *)
(* (src/src/ollama_tools/executor.py) and the tool-call orchestration loop *)
(* of the proxy (src/src/ollama_tools/proxy.py).                           *)
(*                                                                         *)
(* Text is a sequence of one-character strings.  A path is a sequence of   *)
(* component names; a path argument is a record [abs, parts].  A tool      *)
(* result text is a record [kind, num, body, footer]: kind names the       *)
(* message the code formats, num the number it interpolates, body the      *)
(* numbered lines of a read_file listing, footer the numbers of its        *)
(* "[Showing lines X-Y of Z total]" trailer.                               *)
(***************************************************************************)
EXTENDS Integers, Sequences, FiniteSets, TLC

(***************************************************************************)
(* Bounds of the model.                                                    *)
(***************************************************************************)
\* longest file content drawn for the executor specification
MaxLen == 3
\* longest old_string / new_string / written content drawn
MaxArgLen == 2
\* longest path argument (in components) drawn
MaxPathLen == 2
\* largest offset / limit drawn for read_file (the smallest is -1)
MaxWindow == 3
\* largest max_tool_iterations drawn (the smallest is -1)
MaxIterations == 2
\* most tool calls in one backend response
MaxToolCalls == 2
\* a streamed text has at most MaxChunks full chunks and a rest
MaxChunks == 2
\* an inbound request of the messages endpoint has at most MaxMessages messages
MaxMessages == 2
\* the directory m of the tree holds ManyFiles files, or one less
ManyFiles == 201

(***************************************************************************)
(* Program constants.                                                      *)
(***************************************************************************)
DefaultLimit == 2000
MaxLineLength == 2000
DefaultTimeout == 120
TimeoutCap == 600
ChunkSize == 50

(***************************************************************************)
(* Text: the str methods the executor uses.                                *)
(***************************************************************************)
Chars == {"a", "b", "\n"}
Whitespace == {" ", "\n", "\t"}

RECURSIVE StringsUpTo(_, _)
StringsUpTo(alphabet, n) ==
    IF n = 0 THEN {<<>>}
    ELSE LET shorter == StringsUpTo(alphabet, n - 1)
         IN  shorter \cup {Append(s, c) : s \in shorter, c \in alphabet}

\* s[i:] starts with sub
MatchAt(s, sub, i) ==
    /\ i + Len(sub) - 1 <= Len(s)
    /\ \A j \in 1..Len(sub) : s[i + j - 1] = sub[j]

\* str.startswith
startswith(s, prefix) == MatchAt(s, prefix, 1)

RECURSIVE CountFrom(_, _, _)
CountFrom(s, sub, i) ==
    IF i + Len(sub) - 1 > Len(s) THEN 0
    ELSE IF MatchAt(s, sub, i) THEN 1 + CountFrom(s, sub, i + Len(sub))
    ELSE CountFrom(s, sub, i + 1)

\* str.count: non-overlapping occurrences, scanning left to right; the empty
\* string is counted once between every two characters and at both ends
StrCount(s, sub) ==
    IF sub = <<>> THEN Len(s) + 1 ELSE CountFrom(s, sub, 1)

RECURSIVE InterleaveFrom(_, _, _, _)
InterleaveFrom(s, new, i, n) ==
    IF n = 0 THEN SubSeq(s, i, Len(s))
    ELSE IF i > Len(s) THEN new
    ELSE new \o <<s[i]>> \o InterleaveFrom(s, new, i + 1, n - 1)

RECURSIVE ReplaceFrom(_, _, _, _, _)
ReplaceFrom(s, old, new, i, n) ==
    IF i > Len(s) THEN <<>>
    ELSE IF n # 0 /\ MatchAt(s, old, i)
         THEN new \o ReplaceFrom(s, old, new, i + Len(old), n - 1)
    ELSE <<s[i]>> \o ReplaceFrom(s, old, new, i + 1, n)

\* str.replace(old, new, n): the first n non-overlapping occurrences, all of
\* them when n is negative
StrReplace(s, old, new, n) ==
    IF old = <<>> THEN InterleaveFrom(s, new, 1, n)
    ELSE ReplaceFrom(s, old, new, 1, n)

RECURSIVE rstrip(_)
rstrip(s) ==
    IF s # <<>> /\ s[Len(s)] \in Whitespace THEN rstrip(SubSeq(s, 1, Len(s) - 1))
    ELSE s

RECURSIVE lstrip(_)
lstrip(s) ==
    IF s # <<>> /\ s[1] \in Whitespace THEN lstrip(Tail(s)) ELSE s

\* str.strip
strip(s) == rstrip(lstrip(s))

RECURSIVE ReadLinesFrom(_, _, _)
ReadLinesFrom(s, i, cur) ==
    IF i > Len(s) THEN (IF cur = <<>> THEN <<>> ELSE <<cur>>)
    ELSE IF s[i] = "\n" THEN <<Append(cur, "\n")>> \o ReadLinesFrom(s, i + 1, <<>>)
    ELSE ReadLinesFrom(s, i + 1, Append(cur, s[i]))

\* file.readlines: the lines of s, each keeping its newline
readlines(s) == ReadLinesFrom(s, 1, <<>>)

\* Python's lines[start:end] for start >= 0 (0-based, end exclusive, a
\* negative end counts from the back)
Slice(lines, start, end) ==
    LET n  == Len(lines)
        hi == IF end < 0 THEN (IF n + end < 0 THEN 0 ELSE n + end)
              ELSE IF end > n THEN n ELSE end
    IN  SubSeq(lines, start + 1, hi)


(***************************************************************************)
(* State.                                                                  *)
(***************************************************************************)
VARIABLES
    \* ToolExecutor configuration, fixed at construction
    allowed_directories,  \* sequence of resolved directories
    allow_commands,       \* BOOLEAN
    command_allowlist,    \* [configured, prefixes]: None is configured = FALSE
    \* ProxyConfig
    max_tool_iterations,
    \* the world the tools act on: [files, dirs, launched]
    fs,
    \* one direct call of ToolExecutor.execute: the call, its result text and
    \* the world before it
    call, result, before,
    \* what a direct call of execute_tool_call gave: [raised, message]
    reply,
    \* per request of chat_completion
    pc,                \* "idle", "awaiting", "returned" or "raised"
    input_messages,    \* the caller's message list
    current_messages,  \* the loop's working copy
    iterations,        \* the loop counter
    sent,              \* message lists sent to the backend, in order
    received,          \* backend responses received, in order
    executed,          \* tool-call records dispatched, in order
    returned,          \* <<response>> once chat_completion has returned
    \* ProxyConfig, as the HTTP endpoints use it
    force_model,       \* BOOLEAN
    use_anthropic_api, \* BOOLEAN
    inject_tools,      \* BOOLEAN
    \* per request of an HTTP endpoint
    gpc,               \* where the handler is: "idle", "completions", "streaming",
                       \* "translating", "forwarding", "emitting" or "done"
    body,              \* the JSON body the caller sent
    request_body,      \* the body the gateway builds for the backend
    failure,           \* the exception that left the backend call or the loop
    http               \* what the caller receives: [status, detail, payload, events, aborted]

config_vars == <<allowed_directories, allow_commands, command_allowlist, max_tool_iterations>>
harness_vars == <<call, result, before, reply>>
loop_vars == <<pc, input_messages, current_messages, iterations, sent, received, executed, returned>>
gateway_vars ==
    <<force_model, use_anthropic_api, inject_tools, gpc, body, request_body, failure, http>>
vars == <<config_vars, fs, harness_vars, loop_vars, gateway_vars>>

(***************************************************************************)
(* The file system and the path sandbox.                                   *)
(***************************************************************************)
\* self.working_directory, resolved
working_directory == <<"w">>

\* the symbolic links of the tree: /w/l points to /o, outside /w
Symlinks == {<<"w", "l">>}
LinkTarget(p) == <<"o">>

InitialDirs == {<<>>, <<"w">>, <<"w", "d">>, <<"o">>}
TargetFile == <<"w", "f">>
SecretFile == <<"o", "s">>

Parent(p) == IF p = <<>> THEN <<>> ELSE SubSeq(p, 1, Len(p) - 1)

RECURSIVE RealPathFrom(_, _, _)
RealPathFrom(cur, parts, i) ==
    IF i > Len(parts) THEN cur
    ELSE IF parts[i] = "." THEN RealPathFrom(cur, parts, i + 1)
    ELSE IF parts[i] = ".." THEN RealPathFrom(Parent(cur), parts, i + 1)
    ELSE LET cand == Append(cur, parts[i])
         IN  IF cand \in Symlinks
             THEN RealPathFrom(LinkTarget(cand), parts, i + 1)
             ELSE RealPathFrom(cand, parts, i + 1)

\* Path.resolve(): components walked from the root, ".." taken after the
\* symbolic links before it are followed, missing components kept
resolve(parts) == RealPathFrom(<<>>, parts, 1)

\* the mutant of _resolve_path that joins without resolving: "." and ".."
\* stay in the path as components, symbolic links are not followed
JoinOnly(file_path) ==
    LET path == IF file_path.abs THEN file_path.parts
                ELSE working_directory \o file_path.parts
    IN  [ok   |-> \E k \in 1..Len(allowed_directories) :
                      /\ Len(allowed_directories[k]) <= Len(path)
                      /\ SubSeq(path, 1, Len(allowed_directories[k])) = allowed_directories[k],
         path |-> resolve(path)]

\* path.relative_to(parent) succeeds: parent's components are a prefix
_is_subpath(path, parent) ==
    /\ Len(parent) <= Len(path)
    /\ SubSeq(path, 1, Len(parent)) = parent

\* [ok, path]: ok = FALSE is the PermissionError
_resolve_path(file_path) ==
    LET joined == IF file_path.abs THEN file_path.parts
                  ELSE working_directory \o file_path.parts
        path   == resolve(joined)
    IN  [ok   |-> \E k \in 1..Len(allowed_directories) :
                      _is_subpath(path, allowed_directories[k]),
         path |-> path]

exists(w, p) == p \in DOMAIN w.files \/ p \in w.dirs
is_file(w, p) == p \in DOMAIN w.files
is_dir(w, p) == p \in w.dirs

\* the proper ancestors of p
Ancestors(p) == {SubSeq(p, 1, k) : k \in 0..(Len(p) - 1)}

(***************************************************************************)
(* Result texts and tool outcomes.                                         *)
(***************************************************************************)
Text(kind, num) == [kind |-> kind, num |-> num, body |-> <<>>, footer |-> <<>>]

\* a tool's outcome: the exception it raises ("none": it returns text) and
\* the world it leaves
Returns(text, w) == [exc |-> "none", text |-> text, world |-> w]
Raises(exc, w) == [exc |-> exc, text |-> Text("", 0), world |-> w]

Get(args, key, default) == IF key \in DOMAIN args THEN args[key] ELSE default

(***************************************************************************)
(* The tools.  Each takes the argument mapping and the world and yields    *)
(* Returns(text, world') or Raises(exception, world').                     *)
(***************************************************************************)
TruncatedMarker == <<"...[truncated]", "\n">>

\* one output line of read_file: f"{i:6}\t{line.rstrip()}"
OutputLine(i, line) ==
    LET cut == IF Len(line) > MaxLineLength
               THEN SubSeq(line, 1, MaxLineLength) \o TruncatedMarker
               ELSE line
    IN  [no |-> i, text |-> rstrip(cut)]

\* the window of _tool_read_file: offset and limit are 0 where the caller
\* gave none (None and 0 take the same branch of "offset or 1", "limit or 2000")
Window(lines, offset, limit) ==
    LET start0     == (IF offset = 0 THEN 1 ELSE offset) - 1
        start_line == IF start0 < 0 THEN 0 ELSE start0
        max_lines  == IF limit = 0 THEN DefaultLimit ELSE limit
        end_line   == start_line + max_lines
        selected   == Slice(lines, start_line, end_line)
    IN  [start_line |-> start_line, end_line |-> end_line,
         output_lines |-> [k \in 1..Len(selected) |->
                              OutputLine(start_line + k, selected[k])]]

_tool_read_file(args, w) ==
    LET r == _resolve_path(args.file_path)
    IN  IF ~r.ok THEN Raises("PermissionError", w)
        ELSE IF ~exists(w, r.path) THEN Returns(Text("FileDoesNotExist", 0), w)
        ELSE IF ~is_file(w, r.path) THEN Returns(Text("PathIsNotAFile", 0), w)
        ELSE LET lines == readlines(w.files[r.path])
                 win   == Window(lines, Get(args, "offset", 0), Get(args, "limit", 0))
             IN  IF win.output_lines = <<>>
                 THEN Returns(Text("EmptyOrBeyond", 0), w)
                 ELSE Returns([kind   |-> "Lines", num |-> 0,
                               body   |-> win.output_lines,
                               footer |-> IF win.end_line < Len(lines)
                                          THEN <<win.start_line + 1, win.end_line, Len(lines)>>
                                          ELSE <<>>], w)

\* f with p mapped to content
WithFile(f, p, content) ==
    [q \in DOMAIN f \cup {p} |-> IF q = p THEN content ELSE f[q]]

\* the mutant of write_file that makes the parent directories before the
\* path is checked
MkdirBeforeCheck(args, w) ==
    LET r    == _resolve_path(args.file_path)
        made == [w EXCEPT !.dirs = w.dirs \cup Ancestors(r.path)]
    IN  IF \E a \in Ancestors(r.path) : is_file(w, a) THEN Raises("OSError", w)
        ELSE IF ~r.ok THEN Raises("PermissionError", made)
        ELSE IF is_dir(made, r.path)
        THEN Returns(Text("ErrorWritingFile", 0), made)
        ELSE Returns(Text("SuccessfullyWrote", Len(args.content)),
                     [made EXCEPT !.files = WithFile(made.files, r.path, args.content)])

_tool_write_file(args, w) ==
    LET r == _resolve_path(args.file_path)
    IN  IF ~r.ok THEN Raises("PermissionError", w)
        \* path.parent.mkdir(parents=True, exist_ok=True), outside the try
        ELSE IF \E a \in Ancestors(r.path) : is_file(w, a) THEN Raises("OSError", w)
        ELSE LET made == [w EXCEPT !.dirs = w.dirs \cup Ancestors(r.path)]
             IN  IF is_dir(made, r.path)
                 THEN Returns(Text("ErrorWritingFile", 0), made)
                 ELSE Returns(Text("SuccessfullyWrote", Len(args.content)),
                              [made EXCEPT !.files = WithFile(made.files, r.path, args.content)])

\* the mutant of the uniqueness gate that lets two occurrences through
GateUpToTwo(count, replace_all) == count > 2 /\ ~replace_all

\* "count > 1 and not replace_all"
NotUnique(count, replace_all) == count > 1 /\ ~replace_all

\* the mutant of the replacement that always replaces one occurrence
ReplaceFirstOnly(content, old_string, new_string, replace_all) ==
    StrReplace(content, old_string, new_string, 1)

\* the content edit_file writes past the gate
Replacement(content, old_string, new_string, replace_all) ==
    IF replace_all THEN StrReplace(content, old_string, new_string, -1)
    ELSE StrReplace(content, old_string, new_string, 1)

_tool_edit_file(args, w) ==
    LET r == _resolve_path(args.file_path)
    IN  IF ~r.ok THEN Raises("PermissionError", w)
        ELSE IF ~exists(w, r.path) THEN Returns(Text("FileDoesNotExist", 0), w)
        ELSE IF ~is_file(w, r.path) THEN Returns(Text("ErrorReadingFile", 0), w)
        ELSE LET content     == w.files[r.path]
                 replace_all == Get(args, "replace_all", FALSE)
                 count       == StrCount(content, args.old_string)
             IN  IF count = 0 THEN Returns(Text("OldStringNotFound", 0), w)
                 ELSE IF NotUnique(count, replace_all)
                 THEN Returns(Text("OldStringFoundTimes", count), w)
                 ELSE Returns(Text("SuccessfullyReplaced", IF replace_all THEN count ELSE 1),
                              [w EXCEPT !.files = WithFile(w.files, r.path,
                                  Replacement(content, args.old_string, args.new_string,
                                              replace_all))])

\* any(command.strip().startswith(prefix) for prefix in self.command_allowlist)
InAllowlist(command) ==
    \E k \in 1..Len(command_allowlist.prefixes) :
        startswith(strip(command), command_allowlist.prefixes[k])

Min(a, b) == IF a < b THEN a ELSE b

\* outcome is what the launched process does: "success", "failed" or "timeout"
_tool_run_command(args, w, outcome) ==
    IF ~allow_commands THEN Returns(Text("CommandsDisabled", 0), w)
    ELSE IF /\ command_allowlist.configured
            /\ command_allowlist.prefixes # <<>>
            /\ ~InAllowlist(args.command)
    THEN Returns(Text("NotInAllowlist", 0), w)
    ELSE LET given == "working_directory" \in DOMAIN args
             r     == IF given THEN _resolve_path(args.working_directory)
                      ELSE [ok |-> TRUE, path |-> working_directory]
             timeout == Get(args, "timeout", DefaultTimeout)
         IN  IF ~r.ok THEN Raises("PermissionError", w)
             \* subprocess.run cannot start the shell in a missing directory
             ELSE IF ~is_dir(w, r.path) THEN Returns(Text("ErrorExecutingCommand", 0), w)
             ELSE LET ran == [w EXCEPT !.launched = Append(w.launched,
                                 [command |-> args.command, cwd |-> r.path,
                                  timeout |-> Min(timeout, TimeoutCap)])]
                  IN  CASE outcome = "success" -> Returns(Text("Success", 0), ran)
                        [] outcome = "failed"  -> Returns(Text("Failed", 1), ran)
                        [] OTHER -> Returns(Text("CommandTimedOut", timeout), ran)

(***************************************************************************)
(* The directory tools.  The paths they report are lexical: written from   *)
(* the directory they start in, ".." and links kept as they were met.      *)
(***************************************************************************)
\* the names os.scandir finds in the directory at the real path p
scandir(w, p) ==
    {q[Len(q)] : q \in {e \in DOMAIN w.files \cup w.dirs \cup Symlinks :
                           e # <<>> /\ Parent(e) = p}}

\* the place a lexical path below base leads to
At(base, cur) == resolve(base \o cur)

PyNames == {"main.py", "utils.py"}

\* fnmatch.fnmatch(str(path), pattern) for the patterns "*" and "*.py" ("*"
\* runs over "/" as well) and for patterns without a wildcard
fnmatch(path, pattern) ==
    CASE pattern = "*"    -> TRUE
      [] pattern = "*.py" -> path[Len(path)] \in PyNames
      [] OTHER            -> path = <<pattern>>

IsWildcard(part) == part \in {"*", "*.py"}

\* pathlib's _iterate_directories for "**": cur and the directories below
\* it, links not entered
RECURSIVE _iterate_directories(_, _, _)
_iterate_directories(w, base, cur) ==
    {cur} \cup UNION {_iterate_directories(w, base, Append(cur, n)) :
                         n \in {m \in scandir(w, At(base, cur)) :
                                   Append(At(base, cur), m) \in w.dirs}}

\* pathlib's selectors from part i of the pattern on: "**" recurses, a
\* wildcard scans the directory, any other part (".." too) is appended as
\* it is; a part before the last must lead to a directory, the last to
\* something that exists
RECURSIVE _select_from(_, _, _, _, _)
_select_from(w, base, parts, i, cur) ==
    IF i > Len(parts) THEN {cur}
    ELSE IF parts[i] = "**"
    THEN UNION {_select_from(w, base, parts, i + 1, d) :
                   d \in _iterate_directories(w, base, cur)}
    ELSE UNION {_select_from(w, base, parts, i + 1, Append(cur, n)) :
                   n \in {m \in IF IsWildcard(parts[i])
                                THEN {e \in scandir(w, At(base, cur)) : fnmatch(<<e>>, parts[i])}
                                ELSE {parts[i]} :
                             IF i < Len(parts)
                             THEN is_dir(w, At(base, Append(cur, m)))
                             ELSE exists(w, At(base, Append(cur, m)))}}

\* p.stat().st_mtime: the time of what the path leads to
st_mtime(w, base, p) == w.mtime[At(base, p)]

\* paths of equal time, in the order the scan happened to give
RECURSIVE AnyOrder(_)
AnyOrder(S) ==
    IF S = {} THEN <<>>
    ELSE <<CHOOSE p \in S : TRUE>> \o AnyOrder(S \ {CHOOSE p \in S : TRUE})

\* the paths of S, each with the time of what it leads to
Timed(w, base, S) == {<<st_mtime(w, base, p), p>> : p \in S}

\* matches.sort(key=st_mtime, reverse=True): the paths timed from lo to hi,
\* the most recent first, by halving the span of time
RECURSIVE NewestFirst(_, _, _)
NewestFirst(timed, lo, hi) ==
    IF lo > hi THEN <<>>
    ELSE IF lo = hi THEN AnyOrder({tp[2] : tp \in {x \in timed : x[1] = lo}})
    ELSE NewestFirst(timed, (lo + hi) \div 2 + 1, hi) \o NewestFirst(timed, lo, (lo + hi) \div 2)

GlobLimit == 200

\* the text of glob_files for the sorted matches: at most 200 lines, then
\* the footer with the number of matches
Globbed(matches, w) ==
    IF matches = <<>> THEN Returns(Text("NoFilesFound", 0), w)
    ELSE Returns([kind   |-> "Matches",
                  num    |-> Len(matches),
                  body   |-> SubSeq(matches, 1, Min(GlobLimit, Len(matches))),
                  footer |-> IF Len(matches) > GlobLimit
                             THEN <<GlobLimit, Len(matches)>> ELSE <<>>], w)

\* Path.glob refuses an absolute pattern (NotImplementedError) and an
\* empty one (ValueError)
_tool_glob_files(args, w) ==
    LET r == _resolve_path(Get(args, "path", [abs |-> FALSE, parts |-> <<>>]))
    IN  IF ~r.ok THEN Raises("PermissionError", w)
        ELSE IF ~is_dir(w, r.path) THEN Returns(Text("NotADirectory", 0), w)
        ELSE IF args.pattern.abs THEN Raises("NotImplementedError", w)
        ELSE IF args.pattern.parts = <<>> THEN Raises("ValueError", w)
        ELSE Globbed(NewestFirst(Timed(w, r.path,
                                       _select_from(w, r.path, args.pattern.parts, 1, <<>>)),
                                 1, Cardinality(DOMAIN w.mtime)), w)

WalkDepth == 3

\* the roots of os.walk whose entries are listed: a root deeper than 3 is
\* skipped and not descended, links are not entered
RECURSIVE Walked(_, _, _)
Walked(w, dir_path, rel_root) ==
    IF Len(rel_root) > WalkDepth THEN {}
    ELSE {rel_root} \cup
         UNION {Walked(w, dir_path, Append(rel_root, n)) :
                   n \in {m \in scandir(w, dir_path \o rel_root) :
                             (dir_path \o rel_root) \o <<m>> \in w.dirs}}

\* the entries of the roots: a link to a directory counts as a directory
Entries(w, dir_path, roots) ==
    UNION {{[dir  |-> is_dir(w, At(dir_path, Append(rel_root, n))),
             path |-> Append(rel_root, n)] : n \in scandir(w, dir_path \o rel_root)} :
              rel_root \in roots}

\* the text of list_directory: the lines as a set, their order left out;
\* the trees here have fewer than the 500 lines the text is cut to
Listing(entries, w) ==
    IF entries = {} THEN Returns(Text("NothingListed", 0), w)
    ELSE Returns([kind |-> "Listing", num |-> Cardinality(entries), body |-> <<>>,
                  footer |-> <<>>, entries |-> entries], w)

\* the recursive mode filters with "pattern is None or fnmatch(...)", the
\* flat mode with "pattern and not fnmatch(...)"
_tool_list_directory(args, w) ==
    LET r         == _resolve_path(args.path)
        recursive == Get(args, "recursive", FALSE)
        filtered  == "pattern" \in DOMAIN args /\ (recursive \/ args.pattern # "")
    IN  IF ~r.ok THEN Raises("PermissionError", w)
        ELSE IF ~exists(w, r.path) THEN Returns(Text("DirectoryMissing", 0), w)
        ELSE IF ~is_dir(w, r.path) THEN Returns(Text("NotADirectory", 0), w)
        ELSE Listing({e \in Entries(w, r.path,
                                    IF recursive THEN Walked(w, r.path, <<>>) ELSE {<<>>}) :
                         ~filtered \/ fnmatch(e.path, args.pattern)}, w)

\* re.compile fails on an unbalanced parenthesis
InvalidRegex(pattern) == \E i \in 1..Len(pattern) : pattern[i] = "("

\* the candidates of grep_search below search_path: the file itself,
\* glob("**/" + file_pattern), or the files of rglob("*")
files_to_search(args, w, search_path) ==
    IF is_file(w, search_path) THEN {<<>>}
    ELSE IF "file_pattern" \in DOMAIN args /\ args.file_pattern # <<>>
    THEN _select_from(w, search_path, <<"**">> \o args.file_pattern, 1, <<>>)
    ELSE {f \in _select_from(w, search_path, <<"**", "*">>, 1, <<>>) :
             is_file(w, At(search_path, f))}

\* the probe of the first 1024 bytes for a null byte
IsBinary(content) == \E i \in 1..Len(content) : i <= 1024 /\ content[i] = "NUL"

\* the (file, line) pairs of the text files whose line the pattern is found in
Matching(w, search_path, text_files, pattern) ==
    {fl \in UNION {{<<f, k>> : k \in 1..Len(readlines(w.files[At(search_path, f)]))} :
                      f \in text_files} :
        StrCount(readlines(w.files[At(search_path, fl[1])])[fl[2]], pattern) > 0}

\* the text of grep_search and the files it opened; the trees here stay
\* below its limits of 1000 files and 100 matches
Searched(w, search_path, found, pattern) ==
    LET files      == {f \in found : is_file(w, At(search_path, f))}
        text_files == {f \in files : ~IsBinary(w.files[At(search_path, f)])}
        matches    == Cardinality(Matching(w, search_path, text_files, pattern))
        opened     == [w EXCEPT !.opened = @ \cup {At(search_path, f) : f \in files}]
    IN  IF matches = 0 THEN Returns(Text("NoMatchesFound", 0), opened)
        ELSE Returns([kind |-> "Found", num |-> matches, body |-> <<>>,
                      footer |-> <<Cardinality(text_files)>>], opened)

\* a literal pattern is found in a line when it occurs in it
_tool_grep_search(args, w) ==
    LET r == _resolve_path(Get(args, "path", [abs |-> FALSE, parts |-> <<>>]))
    IN  IF ~r.ok THEN Raises("PermissionError", w)
        ELSE IF InvalidRegex(args.pattern) THEN Returns(Text("InvalidRegex", 0), w)
        ELSE Searched(w, r.path, files_to_search(args, w, r.path), args.pattern)

(***************************************************************************)
(* Dispatch.                                                               *)
(***************************************************************************)
ToolNames ==
    {"read_file", "write_file", "edit_file", "run_command", "list_directory", "glob_files",
     "grep_search"}

Required(tool_name) ==
    CASE tool_name = "read_file"   -> {"file_path"}
      [] tool_name = "write_file"  -> {"file_path", "content"}
      [] tool_name = "edit_file"   -> {"file_path", "old_string", "new_string"}
      [] tool_name = "run_command" -> {"command"}
      [] tool_name = "list_directory" -> {"path"}
      [] tool_name = "glob_files"  -> {"pattern"}
      [] tool_name = "grep_search" -> {"pattern"}

Optional(tool_name) ==
    CASE tool_name = "read_file"   -> {"offset", "limit"}
      [] tool_name = "write_file"  -> {}
      [] tool_name = "edit_file"   -> {"replace_all"}
      [] tool_name = "run_command" -> {"working_directory", "timeout"}
      [] tool_name = "list_directory" -> {"recursive", "pattern"}
      [] tool_name = "glob_files"  -> {"path"}
      [] tool_name = "grep_search" ->
             {"path", "file_pattern", "case_insensitive", "context_lines"}

\* method(**arguments) binds: arguments is a mapping with every required
\* parameter and no unknown one
Binds(tool_name, arguments) ==
    /\ arguments.mapping
    /\ Required(tool_name) \subseteq DOMAIN arguments.map
    /\ DOMAIN arguments.map \subseteq Required(tool_name) \cup Optional(tool_name)

\* the except clauses of execute, applied to a tool's outcome r
Caught(r) ==
    CASE r.exc = "none" -> [text |-> r.text, world |-> r.world]
      [] r.exc = "PermissionError" ->
             [text |-> Text("PermissionDenied", 0), world |-> r.world]
      [] r.exc = "FileNotFoundError" ->
             [text |-> Text("FileNotFound", 0), world |-> r.world]
      [] OTHER -> [text |-> Text("ErrorExecuting", 0), world |-> r.world]

\* [text, world]
execute(tool_name, arguments, w, outcome) ==
    IF tool_name \notin ToolNames THEN [text |-> Text("UnknownTool", 0), world |-> w]
    ELSE IF ~Binds(tool_name, arguments)
    THEN [text |-> Text("ErrorExecuting", 0), world |-> w]
    ELSE Caught(CASE tool_name = "read_file"  -> _tool_read_file(arguments.map, w)
                  [] tool_name = "write_file" -> _tool_write_file(arguments.map, w)
                  [] tool_name = "edit_file"  -> _tool_edit_file(arguments.map, w)
                  [] tool_name = "list_directory" -> _tool_list_directory(arguments.map, w)
                  [] tool_name = "glob_files" -> _tool_glob_files(arguments.map, w)
                  [] tool_name = "grep_search" -> _tool_grep_search(arguments.map, w)
                  [] OTHER -> _tool_run_command(arguments.map, w, outcome))

(***************************************************************************)
(* Messages, tool-call records and backend responses.                      *)
(*                                                                         *)
(* A message is [role, content, tool_calls, tool_call_id]; tool_calls is   *)
(* [kind, items] with kind "absent" (no such key), "null" or "list".  A    *)
(* tool-call record is [id, function]; function is [kind, name, arguments] *)
(* with kind "absent", "null" or "object"; arguments is [kind, map] with   *)
(* kind "json_object" (a string holding a JSON object), "malformed" (a     *)
(* string that is no JSON), "json_other" (a string holding other JSON),    *)
(* "dict", "null" or "absent".  A response is [message].                   *)
(***************************************************************************)
NoToolCallsField == [kind |-> "absent", items |-> <<>>]

Message(role, content, tool_calls, tool_call_id) ==
    [role |-> role, content |-> content, tool_calls |-> tool_calls,
     tool_call_id |-> tool_call_id]

\* json.loads(arguments_str) if isinstance(arguments_str, str) else
\* arguments_str, a JSONDecodeError giving {}: [mapping, map]
ParseArguments(arguments) ==
    CASE arguments.kind \in {"json_object", "dict"} ->
             [mapping |-> TRUE, map |-> arguments.map]
      [] arguments.kind \in {"malformed", "absent"} ->
             [mapping |-> TRUE, map |-> <<>>]
      [] OTHER -> [mapping |-> FALSE, map |-> <<>>]

\* the tool result message execute_tool_call returns for the result r of
\* execute
ToolResult(tool_call, r) ==
    [raised  |-> FALSE,
     message |-> Message("tool", r.text, NoToolCallsField, tool_call.id),
     world   |-> r.world]

\* [raised, message, world]: raised is the AttributeError of None.get
execute_tool_call(tool_call, w, outcome) ==
    IF tool_call.function.kind = "null"
    THEN [raised |-> TRUE, message |-> Message("tool", Text("", 0), NoToolCallsField, ""),
          world |-> w]
    ELSE LET present == tool_call.function.kind = "object"
         IN  ToolResult(tool_call,
                 execute(IF present THEN tool_call.function.name ELSE "",
                         IF present THEN ParseArguments(tool_call.function.arguments)
                         ELSE [mapping |-> TRUE, map |-> <<>>],
                         w, outcome))

\* one pass of the for loop: tool_call dispatched with outcome r, its
\* result appended; acc is [raised, messages, world, executed]
Dispatched(acc, tool_call, r) ==
    [raised   |-> r.raised,
     messages |-> IF r.raised THEN acc.messages ELSE Append(acc.messages, r.message),
     world    |-> r.world,
     executed |-> Append(acc.executed, tool_call)]

\* the for loop over tool_calls from index i on
RECURSIVE ExecuteAll(_, _, _, _)
ExecuteAll(tool_calls, i, acc, outcome) ==
    IF i > Len(tool_calls) \/ acc.raised THEN acc
    ELSE ExecuteAll(tool_calls, i + 1,
             Dispatched(acc, tool_calls[i],
                        execute_tool_call(tool_calls[i], acc.world, outcome)),
             outcome)

\* the mutant of "not tool_calls" that only tests for the missing key
OnlyAbsent(tool_calls) == tool_calls.kind = "absent"

\* "not tool_calls" for message.get("tool_calls", [])
NoToolCalls(tool_calls) == tool_calls.kind # "list" \/ tool_calls.items = <<>>

\* the mutant of the loop condition that admits one more round-trip
ContinuesOnceMore(n) == n <= max_tool_iterations

\* "while iterations < self.config.max_tool_iterations"
LoopContinues(n) == n < max_tool_iterations

\* the mutant of the assistant append that forgets the message
ForgetAssistant(messages, message) == messages

\* current_messages.append(message)
AppendAssistant(messages, message) == Append(messages, message)

(***************************************************************************)
(* The orchestration loop: chat_completion for request r.  A request runs  *)
(* without interruption between two awaits of the backend.                 *)
(***************************************************************************)
Requests == {1, 2}
Outcomes == {"success", "failed", "timeout"}

\* the top of the while loop: another round-trip, or the code after it
LoopTop(r, messages, n, responses) ==
    IF LoopContinues(n)
    THEN /\ pc' = [pc EXCEPT ![r] = "awaiting"]
         /\ iterations' = [iterations EXCEPT ![r] = n + 1]
         /\ sent' = [sent EXCEPT ![r] = Append(@, messages)]
         /\ returned' = returned
    ELSE \* "return response": response is unbound when no round-trip was made
         /\ pc' = [pc EXCEPT ![r] = IF responses = <<>> THEN "raised" ELSE "returned"]
         /\ iterations' = [iterations EXCEPT ![r] = n]
         /\ sent' = sent
         /\ returned' = [returned EXCEPT ![r] =
                IF responses = <<>> THEN <<>> ELSE <<responses[Len(responses)]>>]

\* the mutant of Enter that goes on from the conversation of the other
\* request instead of a fresh copy of messages
EnterOnShared(r, messages) ==
    LET other        == CHOOSE q \in Requests : q # r
        conversation == current_messages[other] \o messages
    IN  /\ pc[r] = "idle"
        /\ current_messages' = [current_messages EXCEPT ![r] = conversation]
        /\ LoopTop(r, conversation, 0, <<>>)
        /\ UNCHANGED <<config_vars, fs, harness_vars, received, executed>>

\* chat_completion is called with messages: up to the first await
Enter(r, messages) ==
    /\ pc[r] = "idle"
    /\ current_messages' = [current_messages EXCEPT ![r] = messages]
    /\ LoopTop(r, messages, 0, <<>>)
    /\ UNCHANGED <<config_vars, fs, harness_vars, received, executed>>

\* chat_completion is called with the messages of request r
Start(r) ==
    /\ Enter(r, input_messages[r])
    /\ UNCHANGED input_messages

\* after the for loop, which ended as acc: the exception leaves
\* chat_completion, or the while loop goes on
AfterTools(r, acc, responses) ==
    /\ fs' = acc.world
    /\ current_messages' = [current_messages EXCEPT ![r] = acc.messages]
    /\ executed' = [executed EXCEPT ![r] = acc.executed]
    /\ IF acc.raised
       THEN /\ pc' = [pc EXCEPT ![r] = "raised"]
            /\ UNCHANGED <<iterations, sent, returned>>
       ELSE LoopTop(r, acc.messages, iterations[r], responses)

\* the awaited backend call returns response: up to the next await or the
\* return
Receive(r, response, outcome) ==
    /\ pc[r] = "awaiting"
    /\ received' = [received EXCEPT ![r] = Append(@, response)]
    /\ IF NoToolCalls(response.message.tool_calls)
       THEN /\ pc' = [pc EXCEPT ![r] = "returned"]
            /\ returned' = [returned EXCEPT ![r] = <<response>>]
            /\ UNCHANGED <<fs, current_messages, iterations, sent, executed>>
       ELSE AfterTools(r,
                ExecuteAll(response.message.tool_calls.items, 1,
                    [raised   |-> FALSE,
                     messages |-> AppendAssistant(current_messages[r], response.message),
                     world    |-> fs,
                     executed |-> executed[r]],
                    outcome),
                Append(received[r], response))
    /\ UNCHANGED <<config_vars, harness_vars, input_messages>>

\* the awaited backend call fails (a non-2xx status, a transport error, a
\* body that is no completion): _call_ollama re-raises
BackendFails(r) ==
    /\ pc[r] = "awaiting"
    /\ pc' = [pc EXCEPT ![r] = "raised"]
    /\ UNCHANGED <<config_vars, fs, harness_vars, input_messages, current_messages,
                   iterations, sent, received, executed, returned>>

(***************************************************************************)
(* Inputs.                                                                 *)
(***************************************************************************)
RelPath(parts) == [abs |-> FALSE, parts |-> parts]
AbsPath(parts) == [abs |-> TRUE, parts |-> parts]

World(content) ==
    [files    |-> (TargetFile :> content) @@ (SecretFile :> <<"b">>),
     dirs     |-> InitialDirs,
     launched |-> <<>>]

NoAllowlist == [configured |-> FALSE, prefixes |-> <<>>]
EmptyAllowlist == [configured |-> TRUE, prefixes |-> <<>>]
\* the allowlist of the test fixture: echo, ls, cat
TestAllowlist ==
    [configured |-> TRUE,
     prefixes   |-> <<<<"e", "c", "h", "o">>, <<"l", "s">>, <<"c", "a", "t">>>>]

\* "rm -rf /"
Rm == <<"r", "m", " ", "-", "r", "f", " ", "/">>
Ls == <<"l", "s">>
Commands ==
    {Rm, Ls, <<" ">> \o Ls, <<"\t">> \o Ls \o <<"\n">>, Ls \o <<"o", "f">>,
     <<"s", "l">>, <<"e", "c", "h", "o", " ", "r", "m">>, <<>>}

NoCall == [tool |-> "none", arguments |-> [mapping |-> TRUE, map |-> <<>>]]

UserMessage(r) == Message("user", Text("plain", r), NoToolCallsField, "")

\* the tool-call records the backend draws from
EditCall ==
    [id |-> "call_1",
     function |-> [kind |-> "object", name |-> "edit_file",
                   arguments |-> [kind |-> "json_object",
                                  map  |-> [file_path  |-> RelPath(<<"f">>),
                                            old_string |-> <<"a">>,
                                            new_string |-> <<"b">>]]]]
\* a tool the executor does not have, with malformed arguments
UnknownCall ==
    [id |-> "call_2",
     function |-> [kind |-> "object", name |-> "search_web",
                   arguments |-> [kind |-> "malformed", map |-> <<>>]]]
\* "function": null
NullFunctionCall ==
    [id |-> "call_3",
     function |-> [kind |-> "null", name |-> "",
                   arguments |-> [kind |-> "absent", map |-> <<>>]]]
ToolCallPool == {EditCall, UnknownCall, NullFunctionCall}

RECURSIVE SeqsUpTo(_, _)
SeqsUpTo(S, n) ==
    IF n = 0 THEN {<<>>}
    ELSE LET shorter == SeqsUpTo(S, n - 1)
         IN  shorter \cup {Append(q, x) : q \in shorter, x \in S}

Response(content, tool_calls) ==
    [message |-> Message("assistant", content, tool_calls, "")]

FinalResponses ==
    {Response(content, tool_calls) :
        content \in {Text("plain", 0), Text("null", 0)},
        tool_calls \in {NoToolCallsField, [kind |-> "null", items |-> <<>>],
                        [kind |-> "list", items |-> <<>>]}}
ToolResponses ==
    {Response(Text("null", 0), [kind |-> "list", items |-> items]) :
        items \in SeqsUpTo(ToolCallPool, MaxToolCalls) \ {<<>>}}
Responses == FinalResponses \cup ToolResponses

(***************************************************************************)
(* The proxy serving one request.                                          *)
(***************************************************************************)
IdleLoop ==
    /\ pc = [r \in Requests |-> "idle"]
    /\ input_messages = [r \in Requests |-> <<UserMessage(r)>>]
    /\ current_messages = [r \in Requests |-> <<>>]
    /\ iterations = [r \in Requests |-> 0]
    /\ sent = [r \in Requests |-> <<>>]
    /\ received = [r \in Requests |-> <<>>]
    /\ executed = [r \in Requests |-> <<>>]
    /\ returned = [r \in Requests |-> <<>>]

NoReply == [raised |-> FALSE, message |-> Message("", Text("", 0), NoToolCallsField, "")]

NoHarness ==
    /\ call = NoCall
    /\ result = Text("", 0)
    /\ before = fs
    /\ reply = NoReply

\* no HTTP request has arrived; the configuration defaults of ProxyConfig
NoFailure == [kind |-> "none", status |-> 0, text |-> ""]
NoResponse ==
    [status |-> 0, detail |-> "", payload |-> <<>>, events |-> <<>>, aborted |-> FALSE]
IdleGateway ==
    /\ gpc = [r \in Requests |-> "idle"]
    /\ body = [r \in Requests |-> <<>>]
    /\ request_body = [r \in Requests |-> <<>>]
    /\ failure = [r \in Requests |-> NoFailure]
    /\ http = [r \in Requests |-> NoResponse]
DefaultGateway ==
    /\ force_model = FALSE
    /\ use_anthropic_api = FALSE
    /\ inject_tools = TRUE
    /\ IdleGateway

Init ==
    /\ allowed_directories = <<working_directory>>
    /\ allow_commands = TRUE
    /\ command_allowlist = NoAllowlist
    /\ max_tool_iterations \in -1..MaxIterations
    /\ fs = World(<<"a", "b">>)
    /\ NoHarness
    /\ IdleLoop
    /\ DefaultGateway

Respond(r) == \E response \in Responses : Receive(r, response, "success")

Next ==
    \/ Start(1) /\ UNCHANGED gateway_vars
    \/ Respond(1) /\ UNCHANGED gateway_vars
    \/ BackendFails(1) /\ UNCHANGED gateway_vars

Spec == Init /\ [][Next]_vars

\* the event loop runs a ready task, and an awaited backend call ends: the
\* HTTP client gives up after its timeout
FairSpec == Spec /\ WF_vars(Next)

(***************************************************************************)
(* Two requests served by the one proxy, on the one event loop.  The tasks *)
(* interleave at the awaits of the backend call.  execute_tool_call is a   *)
(* plain call and subprocess.run blocks the calling thread: a request      *)
(* whose command runs is "running", and the event loop runs no other task  *)
(* until the command ends.  The backend answers each request to that       *)
(* request: its text and its tool-call ids carry the request's number.     *)
(***************************************************************************)
CallId(r) == IF r = 1 THEN "call_1" ELSE "call_2"

\* "ls" in the working directory
RunCall ==
    [id |-> "call_1",
     function |-> [kind |-> "object", name |-> "run_command",
                   arguments |-> [kind |-> "json_object", map |-> [command |-> Ls]]]]

ToolResponse(r, tool_call) ==
    Response(Text("null", 0),
             [kind |-> "list", items |-> <<[tool_call EXCEPT !.id = CallId(r)]>>])

\* the answers to request r that launch no process
QuickResponses(r) ==
    {Response(Text("plain", r), NoToolCallsField), ToolResponse(r, EditCall)}

\* no task is inside subprocess.run: the event loop is free to run a task
NoneRunning == \A q \in Requests : pc[q] # "running"

ConcurrentRespond(r) ==
    /\ NoneRunning
    /\ \E response \in QuickResponses(r) : Receive(r, response, "success")

\* the awaited backend call returns a run_command call: the assistant
\* message is appended and the for loop reaches subprocess.run
Launch(r) ==
    /\ NoneRunning
    /\ pc[r] = "awaiting"
    /\ allow_commands /\ ~command_allowlist.configured
    /\ received' = [received EXCEPT ![r] = Append(@, ToolResponse(r, RunCall))]
    /\ current_messages' = [current_messages EXCEPT ![r] =
           AppendAssistant(@, ToolResponse(r, RunCall).message)]
    /\ pc' = [pc EXCEPT ![r] = "running"]
    /\ UNCHANGED <<config_vars, fs, harness_vars, input_messages, iterations, sent,
                   executed, returned>>

\* subprocess.run returns or times out: the tool result is appended and
\* the request goes on to its next await or its return
CommandEnds(r, outcome) ==
    /\ pc[r] = "running"
    /\ AfterTools(r,
           ExecuteAll(received[r][Len(received[r])].message.tool_calls.items, 1,
               [raised   |-> FALSE,
                messages |-> current_messages[r],
                world    |-> fs,
                executed |-> executed[r]],
               outcome),
           received[r])
    /\ UNCHANGED <<config_vars, harness_vars, input_messages, received>>

\* the event loop resumes the task of a request, or a running command ends
ConcurrentNext ==
    \/ \E r \in Requests : NoneRunning /\ Start(r) /\ UNCHANGED gateway_vars
    \/ \E r \in Requests : ConcurrentRespond(r) /\ UNCHANGED gateway_vars
    \/ \E r \in Requests : Launch(r) /\ UNCHANGED gateway_vars
    \/ \E r \in Requests : NoneRunning /\ BackendFails(r) /\ UNCHANGED gateway_vars
    \/ \E r \in Requests, outcome \in Outcomes :
           CommandEnds(r, outcome) /\ UNCHANGED gateway_vars

ConcurrentSpec == Init /\ [][ConcurrentNext]_vars

(***************************************************************************)
(* The executor called directly: one call of ToolExecutor.execute on a     *)
(* drawn executor, world and argument mapping.                             *)
(***************************************************************************)
Components == {"..", "d", "l", "f", "s", "o", "w"}
PathArgs ==
    {[abs |-> a, parts |-> parts] :
        a \in BOOLEAN, parts \in SeqsUpTo(Components, MaxPathLen)}
\* the target file, a file behind the link, a directory, a missing file
FewPaths == {RelPath(<<"f">>), RelPath(<<"l", "s">>), RelPath(<<"d">>), RelPath(<<"n">>)}
EditStrings == StringsUpTo({"a", "b"}, MaxArgLen)
Windows == -1..MaxWindow

ExecutorConfigs ==
    {[allowed |-> a, commands |-> c, allowlist |-> l] :
        a \in {<<working_directory>>, <<working_directory, <<"o">>>>, <<<<"w", "d">>>>},
        c \in BOOLEAN,
        l \in {NoAllowlist, EmptyAllowlist, TestAllowlist}}
DefaultConfig ==
    [allowed |-> <<working_directory>>, commands |-> TRUE, allowlist |-> NoAllowlist]
DefaultContent == <<"a", "\n", "b">>

\* every content with the default executor, every executor with the
\* default content
InitTools ==
    /\ \E content \in StringsUpTo(Chars, MaxLen), c \in ExecutorConfigs :
           /\ content = DefaultContent \/ c = DefaultConfig
           /\ fs = World(content)
           /\ allowed_directories = c.allowed
           /\ allow_commands = c.commands
           /\ command_allowlist = c.allowlist
    /\ max_tool_iterations = 10
    /\ NoHarness
    /\ IdleLoop
    /\ DefaultGateway

\* the call is recorded with r, what execute made of it
Executed(tool_name, arguments, r) ==
    /\ call' = [tool |-> tool_name, arguments |-> arguments]
    /\ result' = r.text
    /\ fs' = r.world
    /\ before' = fs
    /\ UNCHANGED <<reply, config_vars, loop_vars, gateway_vars>>

Execute(tool_name, map, outcome) ==
    /\ call.tool = "none"
    /\ Executed(tool_name, [mapping |-> TRUE, map |-> map],
                execute(tool_name, [mapping |-> TRUE, map |-> map], fs, outcome))

\* paths and commands are swept on the default content, strings and
\* windows on the target file
OnDefault == fs.files[TargetFile] = DefaultContent
PathsHere == IF OnDefault THEN PathArgs ELSE FewPaths

ReadFile ==
    \/ \E p \in PathsHere : Execute("read_file", [file_path |-> p], "success")
    \/ \E o \in Windows, l \in Windows :
           Execute("read_file", [file_path |-> RelPath(<<"f">>), offset |-> o, limit |-> l],
                   "success")

WriteFile ==
    \E p \in PathsHere, content \in {<<>>, <<"a">>} :
        Execute("write_file", [file_path |-> p, content |-> content], "success")

EditFile ==
    \/ \E old \in EditStrings, new \in EditStrings, all \in BOOLEAN :
           Execute("edit_file", [file_path |-> RelPath(<<"f">>), old_string |-> old,
                                 new_string |-> new, replace_all |-> all], "success")
    \/ \E p \in PathsHere :
           Execute("edit_file", [file_path |-> p, old_string |-> <<"b">>,
                                 new_string |-> <<"a">>], "success")

RunCommand ==
    /\ OnDefault
    /\ \E command \in Commands, outcome \in Outcomes :
           \/ Execute("run_command", [command |-> command], outcome)
           \/ \E p \in FewPaths \cup {RelPath(<<"..", "o">>)} :
                  Execute("run_command", [command |-> command, working_directory |-> p],
                          outcome)

\* the tool-call records dispatched directly: every shape of "function"
\* and of its arguments, for a tool that is there, one that is not, no name
ArgumentPayloads ==
    {[kind |-> "json_object", map |-> [file_path |-> RelPath(<<"f">>)]],
     [kind |-> "json_object", map |-> [file_path |-> RelPath(<<"l", "s">>)]],
     [kind |-> "json_object", map |-> [path |-> RelPath(<<"f">>)]],
     [kind |-> "dict", map |-> [file_path |-> RelPath(<<"f">>)]],
     [kind |-> "malformed", map |-> <<>>],
     [kind |-> "json_other", map |-> <<>>],
     [kind |-> "null", map |-> <<>>],
     [kind |-> "absent", map |-> <<>>]}
ToolCallRecords ==
    {[id |-> "call_1", function |-> [kind |-> "object", name |-> name, arguments |-> a]] :
        name \in {"read_file", "search_web", ""}, a \in ArgumentPayloads}
    \cup {[id |-> "call_1",
           function |-> [kind |-> k, name |-> "", arguments |-> [kind |-> "absent", map |-> <<>>]]] :
              k \in {"absent", "null"}}

\* the record is recorded with r, what execute_tool_call made of it
DispatchedDirectly(tool_call, r) ==
    /\ call' = [tool |-> "execute_tool_call",
                arguments |-> [mapping |-> TRUE, map |-> [tool_call |-> tool_call]]]
    /\ reply' = [raised |-> r.raised, message |-> r.message]
    /\ result' = r.message.content
    /\ fs' = r.world
    /\ before' = fs
    /\ UNCHANGED <<config_vars, loop_vars, gateway_vars>>

ExecuteToolCall ==
    /\ call.tool = "none"
    /\ \E tool_call \in ToolCallRecords :
           DispatchedDirectly(tool_call, execute_tool_call(tool_call, fs, "success"))

\* a tool the executor does not have; a call without its required argument
BadCall ==
    \/ Execute("search_web", <<>>, "success")
    \/ Execute("read_file", <<>>, "success")

NextTools ==
    \/ ReadFile
    \/ WriteFile
    \/ EditFile
    \/ RunCommand
    \/ BadCall
    \/ ExecuteToolCall

ToolSpec == InitTools /\ [][NextTools]_vars

(***************************************************************************)
(* The directory tools called directly, on a tree five levels deep with a  *)
(* directory m of many files.  Every file and directory has its own time.  *)
(***************************************************************************)
TreeDirs ==
    InitialDirs \cup {<<"w", "d", "d">>, <<"w", "d", "d", "d">>, <<"w", "d", "d", "d", "d">>,
                      <<"w", "m">>}

\* the files of the tree except those of m, with their contents
TreeFiles ==
    (TargetFile :> DefaultContent) @@ (SecretFile :> <<"b">>)
    @@ (<<"w", "readme.md">> :> <<"a">>)
    @@ (<<"w", "d", "main.py">> :> <<"b", "\n", "a", "b">>)
    @@ (<<"w", "d", "utils.py">> :> <<>>)
    @@ (<<"w", "d", "d", "f">> :> <<"NUL", "b">>)
    @@ (<<"w", "d", "d", "d", "f">> :> <<"a">>)
    @@ (<<"w", "d", "d", "d", "d", "f">> :> <<"b">>)

\* the order in which the tree was written, the files of m after it
Written ==
    <<<<>>, <<"w">>, <<"o">>, <<"w", "d">>, <<"w", "m">>, <<"w", "d", "d">>,
      <<"w", "d", "d", "d">>, <<"w", "d", "d", "d", "d">>, TargetFile, SecretFile,
      <<"w", "readme.md">>, <<"w", "d", "main.py">>, <<"w", "d", "utils.py">>,
      <<"w", "d", "d", "f">>, <<"w", "d", "d", "d", "f">>, <<"w", "d", "d", "d", "d", "f">>>>

\* the tree with n files in m; the times rise in the order of writing, or fall
Tree(n, rising) ==
    LET stamp(k) == IF rising THEN k ELSE Len(Written) + n + 1 - k
    IN  [files    |-> TreeFiles @@ [p \in {<<"w", "m", ToString(i)>> : i \in 1..n} |-> <<>>],
         dirs     |-> TreeDirs,
         launched |-> <<>>,
         opened   |-> {},
         mtime    |-> [p \in {Written[k] : k \in 1..Len(Written)} |->
                          stamp(CHOOSE k \in 1..Len(Written) : Written[k] = p)]
                      @@ [p \in {<<"w", "m", ToString(i)>> : i \in 1..n} |->
                             stamp(Len(Written) + (CHOOSE i \in 1..n : ToString(i) = p[3]))]]

TreeInit ==
    /\ \E n \in {ManyFiles - 1, ManyFiles}, rising \in BOOLEAN,
          allowed \in {<<working_directory>>, <<working_directory, <<"o">>>>} :
           /\ (n = ManyFiles /\ rising) \/ allowed = <<working_directory>>
           /\ fs = Tree(n, rising)
           /\ allowed_directories = allowed
    /\ allow_commands = TRUE
    /\ command_allowlist = NoAllowlist
    /\ max_tool_iterations = 10
    /\ NoHarness
    /\ IdleLoop
    /\ DefaultGateway

\* ".", directories, the link, a file, a missing name, the parent, /o
TreePaths ==
    {RelPath(<<>>), RelPath(<<"d">>), RelPath(<<"m">>), RelPath(<<"l">>), RelPath(<<"f">>),
     RelPath(<<"n">>), RelPath(<<"d", "d">>), RelPath(<<"..">>), AbsPath(<<"o">>)}

GlobPatterns ==
    {RelPath(parts) : parts \in {<<"*">>, <<"*.py">>, <<"**", "*.py">>, <<"**", "*">>,
                                 <<"m", "*">>, <<"..", "*">>, <<"..", "o", "*">>, <<"l", "*">>,
                                 <<"d", "main.py">>, <<"n">>, <<"*", "*">>, <<>>}}
    \cup {AbsPath(<<"o", "*">>)}

ListDirectory ==
    \E map \in [path : TreePaths] \cup [path : TreePaths, recursive : BOOLEAN]
               \cup [path : TreePaths, recursive : BOOLEAN, pattern : {"*", "*.py", "f", ""}] :
        Execute("list_directory", map, "success")

GlobFiles ==
    \E map \in [pattern : GlobPatterns] \cup [pattern : GlobPatterns, path : TreePaths] :
        Execute("glob_files", map, "success")

FilePatterns == {<<"*.py">>, <<"*">>, <<"..", "o", "*">>, <<"l", "*">>, <<>>}

GrepSearch ==
    \E map \in [pattern : {<<"a">>, <<"b">>, <<"a", "b">>, <<"(">>, <<>>}]
               \cup [pattern : {<<"b">>}, path : TreePaths]
               \cup [pattern : {<<"b">>}, file_pattern : FilePatterns]
               \cup [pattern : {<<"b">>, <<"(">>}, path : TreePaths, file_pattern : FilePatterns,
                     case_insensitive : {TRUE}, context_lines : {1}] :
        Execute("grep_search", map, "success")

TreeNext ==
    \/ ListDirectory
    \/ GlobFiles
    \/ GrepSearch
    \/ ReadFile

TreeSpec == TreeInit /\ [][TreeNext]_vars

(***************************************************************************)
(* The HTTP endpoints.  A JSON string is a sequence of characters; a model *)
(* name, tools and tool_choice are tags: model "" stands for a missing,    *)
(* null or empty name, tools is "none" (missing or null), "empty" ([]) or  *)
(* "caller", tool_choice is "absent", "null" or the caller's string.       *)
(***************************************************************************)
default_model == "devstral-small-2:24b"

\* a str content
Plain(chars) == [kind |-> "plain", num |-> 0, body |-> chars, footer |-> <<>>]

\* the request body chat_completion builds; "stream" is False, absent keys
\* are "absent"
BuildRequest(model, tools, tool_choice, kwargs) ==
    [url         |-> "/v1/chat/completions",
     model       |-> IF model = "" THEN default_model ELSE model,
     stream      |-> FALSE,
     tools       |-> CASE tools = "none" /\ inject_tools -> "builtin"
                       [] tools = "caller" -> "caller"
                       [] OTHER -> "absent",
     tool_choice |-> IF tool_choice \in {"absent", "null", ""} THEN "absent" ELSE tool_choice,
     extra       |-> kwargs]

\* body.get("tool_choice", "auto")
ToolChoiceOf(b) == IF b.tool_choice = "absent" THEN "auto" ELSE b.tool_choice

\* the arguments the completions endpoint gives to chat_completion, and
\* chat_completion_stream to it in turn: the streaming path passes no
\* tool_choice, which then takes its default
CompletionRequest(b) ==
    BuildRequest(b.model, b.tools, IF b.stream THEN "auto" ELSE ToolChoiceOf(b), b.extra)

\* the text parts of a content block list: the text of each text block
\* ("" when it has none) and each plain string, other blocks dropped
RECURSIVE TextParts(_, _)
TextParts(blocks, i) ==
    IF i > Len(blocks) THEN <<>>
    ELSE (IF blocks[i].type \in {"text", "str"} THEN <<blocks[i].text>> ELSE <<>>)
         \o TextParts(blocks, i + 1)

\* "\n".join(parts)
RECURSIVE JoinLines(_, _)
JoinLines(parts, i) ==
    IF i > Len(parts) THEN <<>>
    ELSE (IF i > 1 THEN <<"\n">> ELSE <<>>) \o parts[i] \o JoinLines(parts, i + 1)

\* the mutant of the content conversion that keeps the first text part only
FirstPartOnly(content) ==
    IF content.kind = "list"
    THEN Plain(IF TextParts(content.blocks, 1) = <<>> THEN <<>>
               ELSE TextParts(content.blocks, 1)[1])
    ELSE Plain(content.text)

\* the content of a translated message
CanonicalContent(content) ==
    IF content.kind = "list"
    THEN Plain(JoinLines(TextParts(content.blocks, 1), 1))
    ELSE Plain(content.text)

\* messages_endpoint: the messages given to chat_completion
Translate(b) ==
    (IF b.system # <<>>
     THEN <<Message("system", Plain(b.system), NoToolCallsField, "")>>
     ELSE <<>>)
    \o [i \in 1..Len(b.messages) |->
           Message(b.messages[i].role, CanonicalContent(b.messages[i].content),
                   NoToolCallsField, "")]

\* the mutant of the response conversion that leaves usage out when the
\* backend gave none
UsageOmitted(completion, model) ==
    [type |-> "message", role |-> "assistant",
     content |-> <<[type |-> "text", text |-> completion.message.content]>>,
     model |-> model, stop_reason |-> "end_turn", usage |-> completion.usage]

\* messages_endpoint: the response made of the result of chat_completion;
\* usage is [present, value], {} when the result has none
ToAnthropic(completion, model) ==
    [type |-> "message", role |-> "assistant",
     content |-> <<[type |-> "text", text |-> completion.message.content]>>,
     model |-> model, stop_reason |-> "end_turn",
     usage |-> IF completion.usage.present THEN completion.usage
               ELSE [present |-> TRUE, value |-> "{}"]]

\* the body messages_endpoint forwards to /v1/messages
ForwardedBody(b) ==
    [url    |-> "/v1/messages",
     model  |-> IF force_model \/ b.model = "" THEN default_model ELSE b.model,
     stream |-> b.stream,
     system |-> b.system, messages |-> b.messages, extra |-> b.extra]

gateway_config == <<force_model, use_anthropic_api, inject_tools>>

\* the mutant of the slice that takes one character less
ChunkShort(content, i) == SubSeq(content, i + 1, Min(i + ChunkSize - 1, Len(content)))

\* content[i:i+50]
Chunk(content, i) == SubSeq(content, i + 1, Min(i + ChunkSize, Len(content)))

\* the events of the synthesized stream
Delta(chunk) == [type |-> "delta", content |-> chunk]
Done == [type |-> "done", content |-> <<>>]

\* exceptions: one raised inside the gateway, the two of the HTTP client
Internal == [kind |-> "internal", status |-> 0, text |-> ""]
HTTPStatusError(status) == [kind |-> "HTTPStatusError", status |-> status, text |-> "backend body"]
TransportError == [kind |-> "transport", status |-> 0, text |-> ""]
BackendErrors == {HTTPStatusError(404), HTTPStatusError(500), TransportError}

\* what the caller receives
HTTPException(status, detail) ==
    [status |-> status, detail |-> detail, payload |-> <<>>, events |-> <<>>, aborted |-> FALSE]
Ok(payload) ==
    [status |-> 200, detail |-> "", payload |-> <<payload>>, events |-> <<>>, aborted |-> FALSE]
\* a StreamingResponse: the status line goes out before the generator runs
StreamStarted ==
    [status |-> 200, detail |-> "", payload |-> <<>>, events |-> <<>>, aborted |-> FALSE]

\* the handler in mode, after a step of chat_completion: it still awaits
\* the backend, it has the result, or the exception exc reached it
Settle(r, mode, exc) ==
    CASE pc'[r] = "awaiting" ->
             /\ gpc' = [gpc EXCEPT ![r] = mode]
             /\ failure' = failure
             /\ http' = [http EXCEPT ![r] = IF mode = "streaming" THEN StreamStarted ELSE @]
      [] pc'[r] = "returned" ->
             /\ gpc' = [gpc EXCEPT ![r] = IF mode = "streaming" THEN "emitting" ELSE "done"]
             /\ failure' = failure
             /\ http' = [http EXCEPT ![r] =
                    CASE mode = "streaming" -> StreamStarted
                      [] mode = "translating" ->
                             Ok(ToAnthropic(returned'[r][1], request_body[r].model))
                      [] OTHER -> Ok(returned'[r][1])]
      [] OTHER ->
             /\ gpc' = [gpc EXCEPT ![r] = "done"]
             /\ failure' = [failure EXCEPT ![r] = exc]
             /\ http' = [http EXCEPT ![r] =
                    CASE mode = "streaming" -> [StreamStarted EXCEPT !.aborted = TRUE]
                      [] mode = "completions" /\ exc.kind = "HTTPStatusError" ->
                             HTTPException(exc.status, exc.text)
                      [] OTHER -> HTTPException(500, "str(e)")]

\* inbound bodies of /v1/chat/completions
CompletionBodies ==
    [endpoint : {"completions"}, model : {"", "m"}, messages : {<<UserMessage(1)>>},
     tools : {"none", "empty", "caller"}, tool_choice : {"absent", "null", "none"},
     stream : BOOLEAN, extra : {"none", "temperature"}]

\* inbound message contents of /v1/messages: a string, or a list of blocks
StrContent(chars) == [kind |-> "str", text |-> chars, blocks |-> <<>>]
BlockContent(blocks) == [kind |-> "list", text |-> <<>>, blocks |-> blocks]
TextBlock(chars) == [type |-> "text", text |-> chars]
\* a text block without "text" reads as ""
BareTextBlock == [type |-> "text", text |-> <<>>]
StrBlock(chars) == [type |-> "str", text |-> chars]
ImageBlock == [type |-> "image", text |-> <<>>]
Contents ==
    {StrContent(<<"a">>),
     BlockContent(<<ImageBlock>>),
     BlockContent(<<TextBlock(<<"a">>), ImageBlock, StrBlock(<<"b">>)>>),
     BlockContent(<<BareTextBlock, TextBlock(<<"b">>)>>)}
InboundMessages == [role : {"user", "assistant"}, content : Contents]

\* inbound bodies of /v1/messages: one message list with every other
\* field, and every message list with one model
FewMessageBodies ==
    [endpoint : {"messages"}, model : {"", "m"}, system : {<<>>, <<"s">>},
     messages : {<<[role |-> "user", content |-> StrContent(<<"a">>)]>>},
     stream : BOOLEAN, extra : {"none"}]
MessageBodies ==
    [endpoint : {"messages"}, model : {"m"}, system : {<<>>, <<"s">>},
     messages : SeqsUpTo(InboundMessages, MaxMessages), stream : {FALSE}, extra : {"none"}]
    \cup FewMessageBodies
\* message lists are swept under the configuration defaults
BodiesHere == IF force_model \/ ~inject_tools THEN FewMessageBodies ELSE MessageBodies

\* a text of n characters
TextOf(n) == [i \in 1..n |-> <<"a", "b", "\n">>[(i % 3) + 1]]
StreamLengths == {k * ChunkSize + d : k \in 0..MaxChunks, d \in {0, 1, 30, ChunkSize - 1}}

\* backend completions: usage is [present, value]
Usages ==
    {[present |-> FALSE, value |-> ""], [present |-> TRUE, value |-> "{tokens}"],
     [present |-> TRUE, value |-> "null"]}
Completion(content, items, usage) ==
    [message |-> Message("assistant", content,
                         IF items = <<>> THEN NoToolCallsField
                         ELSE [kind |-> "list", items |-> items], ""),
     usage |-> usage]
GatewayResponses ==
    {Completion(Plain(TextOf(n)), <<>>, [present |-> FALSE, value |-> ""]) : n \in StreamLengths}
    \cup {Completion(Plain(TextOf(1)), <<>>, u) : u \in Usages}
    \cup {Completion(Text("null", 0), items, [present |-> TRUE, value |-> "{tokens}"]) :
             items \in {<<>>, <<EditCall>>, <<NullFunctionCall>>}}
    \cup {Completion(Text("absent", 0), <<>>, [present |-> FALSE, value |-> ""])}

\* POST /v1/chat/completions
chat_completions(r) ==
    \E b \in CompletionBodies :
        /\ gpc[r] = "idle"
        /\ body' = [body EXCEPT ![r] = b]
        /\ request_body' = [request_body EXCEPT ![r] = CompletionRequest(b)]
        /\ input_messages' = [input_messages EXCEPT ![r] = b.messages]
        /\ Enter(r, b.messages)
        /\ Settle(r, IF b.stream THEN "streaming" ELSE "completions", Internal)
        /\ UNCHANGED gateway_config

\* POST /v1/messages: forwarded as it is, or translated and run through
\* chat_completion
messages_endpoint(r) ==
    \E b \in BodiesHere :
        /\ gpc[r] = "idle"
        /\ body' = [body EXCEPT ![r] = b]
        /\ IF use_anthropic_api
           THEN /\ request_body' = [request_body EXCEPT ![r] = ForwardedBody(b)]
                /\ gpc' = [gpc EXCEPT ![r] = "forwarding"]
                /\ http' = [http EXCEPT ![r] = IF b.stream THEN StreamStarted ELSE @]
                /\ UNCHANGED <<config_vars, fs, harness_vars, loop_vars, failure>>
           ELSE /\ request_body' = [request_body EXCEPT ![r] =
                       BuildRequest(b.model, "none", "auto", "none")]
                /\ input_messages' = [input_messages EXCEPT ![r] = Translate(b)]
                /\ Enter(r, Translate(b))
                /\ Settle(r, "translating", Internal)
        /\ UNCHANGED gateway_config

InLoop(r) == gpc[r] \in {"completions", "streaming", "translating"}

\* the backend answers a round-trip of chat_completion
GatewayRespond(r) ==
    \E response \in GatewayResponses :
        /\ InLoop(r)
        /\ Receive(r, response, "success")
        /\ Settle(r, gpc[r], Internal)
        /\ UNCHANGED <<gateway_config, body, request_body>>

\* the backend fails a round-trip of chat_completion
GatewayBackendFails(r) ==
    \E exc \in BackendErrors :
        /\ InLoop(r)
        /\ BackendFails(r)
        /\ Settle(r, gpc[r], exc)
        /\ UNCHANGED <<gateway_config, body, request_body>>

\* chat_completion_stream from offset i of content on: len(None) raises,
\* a chunk is yielded, or the terminal event
Emitted(r, content, i) ==
    IF content.kind \notin {"plain", "absent"}
    THEN /\ gpc' = [gpc EXCEPT ![r] = "done"]
         /\ failure' = [failure EXCEPT ![r] = Internal]
         /\ http' = [http EXCEPT ![r].aborted = TRUE]
    ELSE /\ failure' = failure
         \* an absent content reads as "", whose body is empty
         /\ IF i < Len(content.body)
            THEN /\ gpc' = gpc
                 /\ http' = [http EXCEPT ![r].events = Append(@, Delta(Chunk(content.body, i)))]
            ELSE /\ gpc' = [gpc EXCEPT ![r] = "done"]
                 /\ http' = [http EXCEPT ![r].events = Append(@, Done)]

\* one event of the synthesized stream
Emit(r) ==
    /\ gpc[r] = "emitting"
    /\ Emitted(r, returned[r][1].message.content, ChunkSize * Len(http[r].events))
    /\ UNCHANGED <<config_vars, fs, harness_vars, loop_vars, gateway_config, body, request_body>>

\* the backend answers the forwarded request: a message, or an empty body
\* (ValueError); a stream is passed on as it comes
ForwardAnswered(r) ==
    /\ gpc[r] = "forwarding"
    /\ gpc' = [gpc EXCEPT ![r] = "done"]
    /\ \E answer \in {"message", ""} :
           IF body[r].stream
           THEN /\ http' = [http EXCEPT ![r].events = <<answer>>]
                /\ failure' = failure
           ELSE IF answer = ""
           THEN /\ http' = [http EXCEPT ![r] = HTTPException(500, "str(e)")]
                /\ failure' = [failure EXCEPT ![r] = Internal]
           ELSE /\ http' = [http EXCEPT ![r] = Ok(answer)]
                /\ failure' = failure
    /\ UNCHANGED <<config_vars, fs, harness_vars, loop_vars, gateway_config, body, request_body>>

\* the backend fails the forwarded request
ForwardFails(r) ==
    /\ gpc[r] = "forwarding"
    /\ gpc' = [gpc EXCEPT ![r] = "done"]
    /\ \E exc \in BackendErrors :
           /\ failure' = [failure EXCEPT ![r] = exc]
           /\ http' = [http EXCEPT ![r] =
                  IF body[r].stream THEN [StreamStarted EXCEPT !.aborted = TRUE]
                  ELSE IF exc.kind = "HTTPStatusError" THEN HTTPException(exc.status, exc.text)
                  ELSE HTTPException(500, "str(e)")]
    /\ UNCHANGED <<config_vars, fs, harness_vars, loop_vars, gateway_config, body, request_body>>

\* the configuration defaults, and each flag turned the other way
GatewayConfigs ==
    {[force_model |-> f, use_anthropic_api |-> u, inject_tools |-> i] :
        f \in BOOLEAN, u \in BOOLEAN, i \in BOOLEAN}
    \ {[force_model |-> TRUE, use_anthropic_api |-> u, inject_tools |-> FALSE] : u \in BOOLEAN}
\* no round-trip allowed, or two
GatewayIterations == {0, 2}

GatewayInit ==
    /\ allowed_directories = <<working_directory>>
    /\ allow_commands = TRUE
    /\ command_allowlist = NoAllowlist
    /\ max_tool_iterations \in GatewayIterations
    /\ fs = World(<<"a", "b">>)
    /\ NoHarness
    /\ pc = [r \in Requests |-> "idle"]
    /\ input_messages = [r \in Requests |-> <<>>]
    /\ current_messages = [r \in Requests |-> <<>>]
    /\ iterations = [r \in Requests |-> 0]
    /\ sent = [r \in Requests |-> <<>>]
    /\ received = [r \in Requests |-> <<>>]
    /\ executed = [r \in Requests |-> <<>>]
    /\ returned = [r \in Requests |-> <<>>]
    /\ \E c \in GatewayConfigs :
           /\ force_model = c.force_model
           /\ use_anthropic_api = c.use_anthropic_api
           /\ inject_tools = c.inject_tools
    /\ IdleGateway

GatewayNext ==
    \/ chat_completions(1)
    \/ messages_endpoint(1)
    \/ GatewayRespond(1)
    \/ GatewayBackendFails(1)
    \/ Emit(1)
    \/ ForwardAnswered(1)
    \/ ForwardFails(1)

GatewaySpec == GatewayInit /\ [][GatewayNext]_vars

(***************************************************************************)
(* Properties of the orchestration loop.                                   *)
(***************************************************************************)
Terminated(r) == pc[r] \in {"returned", "raised"}

\* the tool-call requests a response carries
Requested(response) == response.message.tool_calls.items

\* C1: for every backend behaviour, one request makes at most
\* max_tool_iterations backend round-trips (none when the bound is not
\* positive), and a request that awaits the backend ends: chat_completion
\* returns or raises.
C1_BoundedRoundTrips ==
    /\ [](\A r \in Requests :
             Len(sent[r]) <= (IF max_tool_iterations > 0 THEN max_tool_iterations ELSE 0))
    /\ \A r \in Requests : (pc[r] = "awaiting") ~> Terminated(r)

\* a request that used every round-trip of the largest bound, each answered
\* with tool calls, and returned
C1_Witness ==
    \E r \in Requests :
        /\ pc[r] = "returned"
        /\ max_tool_iterations = MaxIterations
        /\ Len(sent[r]) = max_tool_iterations
        /\ \A k \in 1..Len(received[r]) : Requested(received[r][k]) # <<>>

\* the messages from position from + 1 on are the results of tool_calls, in
\* request order: as many, each of role "tool" with the id of its request
ResultsOf(messages, from, tool_calls) ==
    /\ Len(messages) >= from + Len(tool_calls)
    /\ \A j \in 1..Len(tool_calls) :
           /\ messages[from + j].role = "tool"
           /\ messages[from + j].tool_call_id = tool_calls[j].id

\* the place of the assistant message of response k in the conversation,
\* when every response before it was followed by all of its results
RECURSIVE PlaceOf(_, _)
PlaceOf(r, k) ==
    IF k = 1 THEN Len(input_messages[r]) + 1
    ELSE PlaceOf(r, k - 1) + Len(Requested(received[r][k - 1])) + 1

\* C2: for an assistant message requesting tool calls [A, B, C], the
\* messages appended directly after it are exactly the results of A, B and
\* C in request order, each of role "tool" with the id of its request; the
\* conversation holds nothing else.
C2_ResultsInRequestOrder ==
    \A r \in Requests :
        /\ \A k \in 1..Len(received[r]) :
               Requested(received[r][k]) # <<>> =>
                   /\ Len(current_messages[r]) >= PlaceOf(r, k)
                   /\ current_messages[r][PlaceOf(r, k)] = received[r][k].message
                   /\ ResultsOf(current_messages[r], PlaceOf(r, k), Requested(received[r][k]))
        /\ received[r] # <<>> /\ Requested(received[r][Len(received[r])]) # <<>> =>
               Len(current_messages[r]) = PlaceOf(r, Len(received[r]) + 1) - 1

\* C3: the message list sent on round-trip k+1 is the list sent on
\* round-trip k, then the assistant message of response k, then its tool
\* results; the first list is the caller's; a round-trip is issued only
\* when every earlier one has been answered.
C3_AppendOnlySequential ==
    \A r \in Requests :
        /\ Len(sent[r]) <= Len(received[r]) + 1
        /\ sent[r] # <<>> => sent[r][1] = input_messages[r]
        /\ \A k \in 1..(Len(sent[r]) - 1) :
               LET prev == sent[r][k]
                   next == sent[r][k + 1]
               IN  /\ Len(next) = Len(prev) + 1 + Len(Requested(received[r][k]))
                   /\ SubSeq(next, 1, Len(prev)) = prev
                   /\ next[Len(prev) + 1] = received[r][k].message
                   /\ ResultsOf(next, Len(prev) + 1, Requested(received[r][k]))

\* a second round-trip after a response that requested two tool calls
C3_Witness ==
    \E r \in Requests :
        /\ Len(sent[r]) >= 2
        /\ Len(Requested(received[r][1])) = 2

RECURSIVE RequestedUpTo(_, _)
RequestedUpTo(responses, k) ==
    IF k = 0 THEN <<>>
    ELSE RequestedUpTo(responses, k - 1) \o Requested(responses[k])

\* C4: a response that carries no tool-call request is the last one
\* received and is what chat_completion returns; no round-trip follows it
\* and no tool runs for it.
C4_ToolFreeResponseIsFinal ==
    \A r \in Requests : \A k \in 1..Len(received[r]) :
        Requested(received[r][k]) = <<>> =>
            /\ k = Len(received[r])
            /\ pc[r] = "returned"
            /\ returned[r] = <<received[r][k]>>
            /\ Len(sent[r]) = k
            /\ executed[r] = RequestedUpTo(received[r], k - 1)

\* a tool-free response (an empty tool_calls list) after a round of tools
C4_Witness ==
    \E r \in Requests :
        /\ Len(received[r]) = 2
        /\ received[r][2].message.tool_calls = [kind |-> "list", items |-> <<>>]
        /\ executed[r] # <<>>

\* C5: when each of the max_tool_iterations responses requests tool calls,
\* chat_completion returns the last response as it was received, not an
\* error.
C5_ReturnsLastResponseAtBound ==
    \A r \in Requests :
        ( /\ max_tool_iterations >= 1
          /\ Len(received[r]) = max_tool_iterations
          /\ \A k \in 1..Len(received[r]) : Requested(received[r][k]) # <<>> )
        => /\ pc[r] = "returned"
           /\ returned[r] = <<received[r][Len(received[r])]>>

(***************************************************************************)
(* Properties of the tools.  call is the one call made, before the world   *)
(* it found, fs the world it left, result the text it returned.            *)
(***************************************************************************)
Args == call.arguments.map

\* where a path argument really leads: joined to the working directory
\* when relative, links followed, ".." applied
Location(file_path) ==
    resolve(IF file_path.abs THEN file_path.parts
            ELSE working_directory \o file_path.parts)

Inside(path) ==
    \E k \in 1..Len(allowed_directories) :
        /\ Len(allowed_directories[k]) <= Len(path)
        /\ \A j \in 1..Len(allowed_directories[k]) : path[j] = allowed_directories[k][j]

\* the call has a path argument that the tool resolves
ResolvesPath ==
    \/ call.tool \in {"read_file", "write_file", "edit_file"} /\ "file_path" \in DOMAIN Args
    \/ /\ call.tool = "run_command"
       /\ "working_directory" \in DOMAIN Args
       /\ result.kind \notin {"CommandsDisabled", "NotInAllowlist"}

PathArgument ==
    IF call.tool = "run_command" THEN Args.working_directory ELSE Args.file_path

\* C6: a path whose resolution (links followed, ".." applied) lies outside
\* every allowed directory is refused: the tool returns the access-denied
\* text and leaves the world as it was.
C6_OutsidePathsAreDenied ==
    (ResolvesPath /\ ~Inside(Location(PathArgument))) =>
        /\ result.kind = "PermissionDenied"
        /\ fs = before

\* a read through the symbolic link that leaves the working directory
C6_Witness ==
    /\ call.tool = "read_file"
    /\ "file_path" \in DOMAIN Args
    /\ Args.file_path = RelPath(<<"l", "s">>)
    /\ allowed_directories = <<working_directory>>
    /\ result.kind = "PermissionDenied"

\* the call is an edit_file of a file that exists inside the sandbox
EditsAFile ==
    /\ call.tool = "edit_file"
    /\ "file_path" \in DOMAIN Args
    /\ Inside(Location(Args.file_path))
    /\ is_file(before, Location(Args.file_path))

ReplaceAll == "replace_all" \in DOMAIN Args /\ Args.replace_all

\* the occurrences str.count reports: counted from the left, no two
\* sharing a character
Occurrences == StrCount(before.files[Location(Args.file_path)], Args.old_string)

\* C7: edit_file without replace_all on a file in which old_string occurs
\* k times, k # 1, returns an error text (naming k when k > 1) and leaves
\* the file byte-for-byte as it was.
C7_NonUniqueEditChangesNothing ==
    (EditsAFile /\ ~ReplaceAll /\ Occurrences # 1) =>
        /\ Occurrences = 0 => result.kind = "OldStringNotFound"
        /\ Occurrences > 1 => result.kind = "OldStringFoundTimes" /\ result.num = Occurrences
        /\ fs = before

\* an edit whose old_string occurs twice
C7_Witness ==
    /\ EditsAFile
    /\ ~ReplaceAll
    /\ Occurrences = 2
    /\ result.kind = "OldStringFoundTimes"

\* sub occurs in s at some position
Occurs(s, sub) == \E i \in 1..(Len(s) + 1) : MatchAt(s, sub, i)

Symbols(s) == {s[i] : i \in 1..Len(s)}

\* C8 as stated: after a successful edit_file with replace_all, old_string
\* no longer occurs in the file, provided old_string is not a substring of
\* new_string.
C8_ReplaceAllLeavesNoOccurrence ==
    ( /\ EditsAFile
      /\ ReplaceAll
      /\ result.kind = "SuccessfullyReplaced"
      /\ ~Occurs(Args.new_string, Args.old_string) )
    => ~Occurs(fs.files[Location(Args.file_path)], Args.old_string)

\* C8 amended: after a successful edit_file with replace_all, old_string
\* no longer occurs in the file, provided neither string is empty and the
\* two have no character in common.
C8_ReplaceAllLeavesNoOccurrenceDisjoint ==
    ( /\ EditsAFile
      /\ ReplaceAll
      /\ result.kind = "SuccessfullyReplaced"
      /\ Args.old_string # <<>>
      /\ Args.new_string # <<>>
      /\ Symbols(Args.new_string) \cap Symbols(Args.old_string) = {} )
    => ~Occurs(fs.files[Location(Args.file_path)], Args.old_string)

\* two occurrences replaced by a string of other characters
C8_Witness ==
    /\ EditsAFile
    /\ ReplaceAll
    /\ result.kind = "SuccessfullyReplaced"
    /\ Occurrences = 2
    /\ Args.old_string # <<>>
    /\ Args.new_string # <<>>
    /\ Symbols(Args.new_string) \cap Symbols(Args.old_string) = {}

\* the call read a file with an offset and a limit
ReadsAWindow ==
    /\ call.tool = "read_file"
    /\ {"file_path", "offset", "limit"} \subseteq DOMAIN Args
    /\ result.kind \in {"Lines", "EmptyOrBeyond"}

\* C9: read_file with offset o and limit l returns only lines numbered n
\* with o <= n < o + l, each under its true 1-indexed number, for all
\* integers o and l; an offset beyond the last line gives the empty-file
\* message.
C9_ReadFileWindow ==
    ReadsAWindow =>
        LET lines == readlines(before.files[Location(Args.file_path)])
        IN  /\ result.kind = "Lines" =>
                   \A k \in 1..Len(result.body) :
                       LET n == result.body[k].no
                       IN  /\ Args.offset <= n
                           /\ n < Args.offset + Args.limit
                           /\ n \in 1..Len(lines)
                           /\ result.body[k].text = rstrip(lines[n])
            /\ Args.offset > Len(lines) => result.kind = "EmptyOrBeyond"

RunsCommand == call.tool = "run_command" /\ "command" \in DOMAIN Args

NothingLaunched == fs.launched = before.launched

\* C10: run_command launches nothing when commands are disabled,
\* nor when an allowlist is configured and the command string starts with
\* none of its prefixes; it returns the matching message.
C10_GateBeforeLaunch ==
    RunsCommand =>
        /\ ~allow_commands => result.kind = "CommandsDisabled" /\ NothingLaunched
        /\ ( /\ allow_commands
             /\ command_allowlist.configured
             /\ ~\E k \in 1..Len(command_allowlist.prefixes) :
                    startswith(Args.command, command_allowlist.prefixes[k]) )
           => result.kind = "NotInAllowlist" /\ NothingLaunched

\* the record given to execute_tool_call
Record == Args.tool_call

\* C11: dispatching any tool-call record the backend can issue (any tool
\* name, arguments that are a JSON object, malformed JSON, other JSON or
\* null, "function" missing or null) gives one message of role "tool" with
\* a text and the id of the record, and raises nothing; malformed JSON
\* arguments are dispatched as the empty argument mapping.
C11_DispatchNeverRaises ==
    call.tool = "execute_tool_call" =>
        /\ ~reply.raised
        /\ reply.message.role = "tool"
        /\ reply.message.tool_call_id = Record.id
        /\ reply.message.content.kind # ""
        /\ (Record.function.kind = "object" /\ Record.function.arguments.kind = "malformed") =>
               reply.message.content =
                   execute(Record.function.name, [mapping |-> TRUE, map |-> <<>>],
                           before, "success").text

(***************************************************************************)
(* Properties of the HTTP endpoints.                                       *)
(***************************************************************************)
\* request r came to /v1/chat/completions with "stream" set
Streams(r) == gpc[r] # "idle" /\ body[r].endpoint = "completions" /\ body[r].stream

\* request r came to /v1/messages of a gateway that translates
Translates(r) == gpc[r] # "idle" /\ body[r].endpoint = "messages" /\ ~use_anthropic_api

\* chat_completion returned a completion whose content is a text
ReturnedText(r) == pc[r] = "returned" /\ returned[r][1].message.content.kind = "plain"

FinalText(r) == returned[r][1].message.content.body

ChunksOf(n) == (n + ChunkSize - 1) \div ChunkSize

\* C12: for a final text of n characters the stream is ceil(n/50) delta
\* events carrying the consecutive slices of 50 characters (the last one
\* the rest), followed by exactly one terminal event.
C12_StreamIsConsecutiveSlices ==
    \A r \in Requests :
        (Streams(r) /\ gpc[r] = "done" /\ ReturnedText(r)) =>
            LET n == Len(FinalText(r))
            IN  /\ ~http[r].aborted
                /\ Len(http[r].events) = ChunksOf(n) + 1
                /\ \A k \in 1..ChunksOf(n) :
                       /\ http[r].events[k].type = "delta"
                       /\ http[r].events[k].content =
                              SubSeq(FinalText(r), (k - 1) * ChunkSize + 1,
                                     IF k * ChunkSize < n THEN k * ChunkSize ELSE n)
                /\ http[r].events[ChunksOf(n) + 1].type = "done"

\* a text of 130 characters streamed as 50, 50, 30 and the terminal event
C12_Witness ==
    \E r \in Requests :
        /\ Streams(r) /\ gpc[r] = "done" /\ ReturnedText(r)
        /\ Len(FinalText(r)) = 2 * ChunkSize + 30
        /\ Len(http[r].events) = 4
        /\ Len(http[r].events[3].content) = 30

RECURSIVE Concatenated(_, _)
Concatenated(events, i) ==
    IF i > Len(events) THEN <<>> ELSE events[i].content \o Concatenated(events, i + 1)

\* C13: a streaming completions request gives chat_completion what the
\* same body without the stream flag gives it (so the requests sent to the
\* backend and the tool calls executed are the same under the same backend
\* behaviour), and the streamed deltas together are the final content.
C13_StreamingEqualsNonStreaming ==
    \A r \in Requests :
        Streams(r) =>
            /\ request_body[r] = CompletionRequest([body[r] EXCEPT !.stream = FALSE])
            /\ (gpc[r] = "done" /\ ReturnedText(r)) =>
                   Concatenated(http[r].events, 1) = FinalText(r)

\* a request of r has gone, or is going, to the backend
Forwarded(r) == sent[r] # <<>> \/ (body[r].endpoint = "messages" /\ use_anthropic_api)

\* C14: with model forcing on, every request forwarded to the backend
\* names the configured default model, on the completions path, on the
\* translated messages path and on the pass-through messages path.
C14_ForcedModelIsForwarded ==
    \A r \in Requests :
        (force_model /\ gpc[r] # "idle" /\ Forwarded(r)) =>
            request_body[r].model = default_model

\* C15: when the backend answers with a non-2xx status, the caller of any
\* chat endpoint receives an error response with that status and the
\* backend's body, and the request is over: no further backend call, no
\* further tool.
C15_BackendStatusIsEchoed ==
    \A r \in Requests :
        failure[r].kind = "HTTPStatusError" =>
            /\ http[r].status = failure[r].status
            /\ http[r].detail = failure[r].text
            /\ gpc[r] = "done"
            /\ pc[r] \in {"idle", "raised"}

IsTextual(block) == block.type \in {"text", "str"}

\* the texts joined by line breaks, built from the last one backwards
RECURSIVE NewlineJoined(_)
NewlineJoined(texts) ==
    IF texts = <<>> THEN <<>>
    ELSE IF Len(texts) = 1 THEN texts[1]
    ELSE NewlineJoined(SubSeq(texts, 1, Len(texts) - 1)) \o <<"\n">> \o texts[Len(texts)]

\* the text the claim gives an inbound content
ExpectedText(content) ==
    IF content.kind = "str" THEN content.text
    ELSE LET kept == SelectSeq(content.blocks, IsTextual)
         IN  NewlineJoined([k \in 1..Len(kept) |-> kept[k].text])

\* C16: the canonical message list starts with a system message exactly
\* when the system prompt is not empty, followed by one message per inbound
\* message, in order, with the same role, whose content is the inbound text
\* or the newline-join of the text blocks and plain strings of a block
\* list, other blocks dropped.
C16_TranslatedMessages ==
    \A r \in Requests :
        Translates(r) =>
            LET b   == body[r]
                m   == input_messages[r]
                off == IF b.system # <<>> THEN 1 ELSE 0
            IN  /\ Len(m) = off + Len(b.messages)
                /\ b.system # <<>> => m[1].role = "system" /\ m[1].content = Plain(b.system)
                /\ \A i \in 1..Len(b.messages) :
                       /\ m[off + i].role = b.messages[i].role
                       /\ m[off + i].content = Plain(ExpectedText(b.messages[i].content))
                /\ \A k \in 1..Len(sent[r]) : SubSeq(sent[r][k], 1, Len(m)) = m

\* a system prompt and a block list with a dropped block went to the backend
C16_Witness ==
    \E r \in Requests :
        /\ Translates(r)
        /\ sent[r] # <<>>
        /\ body[r].system # <<>>
        /\ Len(body[r].messages) = 2
        /\ body[r].messages[2].content.kind = "list"
        /\ Len(body[r].messages[2].content.blocks) = 3
        /\ input_messages[r][3].content = Plain(<<"a", "\n", "b">>)

\* the translated response of request r was delivered
Answered(r) == Translates(r) /\ gpc[r] = "done" /\ pc[r] = "returned"

\* one text block with the final content, the fixed stop reason
OneTextBlock(r) ==
    /\ http[r].status = 200
    /\ Len(http[r].payload[1].content) = 1
    /\ http[r].payload[1].content[1].type = "text"
    /\ http[r].payload[1].content[1].text = returned[r][1].message.content
    /\ http[r].payload[1].stop_reason = "end_turn"

\* C17 as stated: the response has one text block holding the final
\* assistant text and the fixed stop reason, and a usage field exactly
\* when the backend supplied usage, then equal to it.
C17_UsageOnlyWhenSupplied ==
    \A r \in Requests :
        Answered(r) =>
            /\ OneTextBlock(r)
            /\ http[r].payload[1].usage.present = returned[r][1].usage.present
            /\ returned[r][1].usage.present => http[r].payload[1].usage = returned[r][1].usage

\* C17 amended: the response has one text block holding the final
\* assistant content and the fixed stop reason, and always a usage field:
\* the backend's value when it supplied one, else an empty object.
C17_UsageDefaultsToEmpty ==
    \A r \in Requests :
        Answered(r) =>
            /\ OneTextBlock(r)
            /\ http[r].payload[1].usage.present
            /\ http[r].payload[1].usage.value =
                   IF returned[r][1].usage.present THEN returned[r][1].usage.value ELSE "{}"

\* a completion without usage, answered with an empty usage object
C17_Witness ==
    \E r \in Requests :
        /\ Answered(r)
        /\ ~returned[r][1].usage.present
        /\ http[r].payload[1].usage = [present |-> TRUE, value |-> "{}"]

(***************************************************************************)
(* Properties of the directory tools.                                      *)
(***************************************************************************)
\* the directory a glob_files or grep_search call starts in
Base == Location(IF "path" \in DOMAIN Args THEN Args.path ELSE RelPath(<<>>))

\* where the entry named by a reported path is: its directory resolved,
\* the entry itself not followed when it is a link
Place(base, rel) ==
    IF rel = <<>> \/ rel[Len(rel)] = ".." THEN resolve(base \o rel)
    ELSE Append(resolve(base \o SubSeq(rel, 1, Len(rel) - 1)), rel[Len(rel)])

\* C18: every path glob_files or list_directory reports, and every file
\* read_file or grep_search reads, lies within an allowed directory, also
\* for patterns with ".." and for links.
C18_NothingOutsideTheSandbox ==
    /\ (call.tool = "glob_files" /\ result.kind = "Matches") =>
           \A k \in 1..Len(result.body) : Inside(Place(Base, result.body[k]))
    /\ (call.tool = "list_directory" /\ result.kind = "Listing") =>
           \A e \in result.entries : Inside(Place(Location(Args.path), e.path))
    /\ call.tool = "grep_search" => \A f \in fs.opened : Inside(f)
    /\ (call.tool = "read_file" /\ result.kind \in {"Lines", "EmptyOrBeyond"}) =>
           Inside(Location(Args.file_path))

\* the path rel from part i on matches the pattern from part j on: "**"
\* stands for any number of directories, every other part for one name
RECURSIVE GlobMatches(_, _, _, _)
GlobMatches(rel, i, parts, j) ==
    IF j > Len(parts) THEN i > Len(rel)
    ELSE IF parts[j] = "**"
    THEN \E k \in i..Len(rel) : GlobMatches(rel, k, parts, j + 1)
    ELSE /\ i <= Len(rel)
         /\ fnmatch(<<rel[i]>>, parts[j])
         /\ GlobMatches(rel, i + 1, parts, j + 1)

\* the entries below the base directory that match the pattern of the call
Expected ==
    {SubSeq(q, Len(Base) + 1, Len(q)) :
        q \in {e \in DOMAIN before.files \cup before.dirs \cup Symlinks :
                  /\ Len(e) > Len(Base)
                  /\ SubSeq(e, 1, Len(Base)) = Base
                  /\ GlobMatches(SubSeq(e, Len(Base) + 1, Len(e)), 1, Args.pattern.parts, 1)}}

\* C19: glob_files returns exactly the paths under the base directory that
\* match the pattern, the most recently modified first, at most 200 of
\* them, with the footer "showing 200 of M" exactly when M > 200 match.
C19_GlobReturnsTheMatches ==
    (call.tool = "glob_files" /\ result.kind \in {"Matches", "NoFilesFound"}) =>
        /\ result.kind = "NoFilesFound" <=> Expected = {}
        /\ result.kind = "Matches" =>
               /\ \A k \in 1..Len(result.body) : result.body[k] \in Expected
               /\ \A j \in 1..Len(result.body), k \in 1..Len(result.body) :
                      j < k => /\ result.body[j] # result.body[k]
                               /\ st_mtime(before, Base, result.body[j])
                                      >= st_mtime(before, Base, result.body[k])
               /\ Len(result.body) = Min(Cardinality(Expected), GlobLimit)
               /\ \A p \in Expected :
                      \/ \E k \in 1..Len(result.body) : result.body[k] = p
                      \/ st_mtime(before, Base, p)
                             <= st_mtime(before, Base, result.body[Len(result.body)])
               /\ result.footer = IF Cardinality(Expected) > GlobLimit
                                  THEN <<GlobLimit, Cardinality(Expected)>> ELSE <<>>

\* C20: list_directory in recursive mode lists no entry whose path from
\* the listed directory has more than 3 components.
C20_ListingAtMostThreeLevels ==
    (/\ call.tool = "list_directory"
     /\ "recursive" \in DOMAIN Args
     /\ Args.recursive
     /\ result.kind = "Listing") =>
        \A e \in result.entries : Len(e.path) <= WalkDepth

(***************************************************************************)
(* Further properties of the orchestration loop.                           *)
(***************************************************************************)
\* the tool messages of a conversation
ToolMessages(messages) == SelectSeq(messages, LAMBDA m : m.role = "tool")

\* the conversation of the last round-trip of request r
LastSent(r) == IF sent[r] = <<>> THEN <<>> ELSE sent[r][Len(sent[r])]

\* C23: when chat_completion has returned, every tool call it executed has
\* its result in the conversation of a round-trip that was made, and the
\* tool calls the returned response carries were not executed: nothing was
\* executed after the last round-trip.
C23_ExecutedResultsReachTheBackend ==
    \A r \in Requests :
        pc[r] = "returned" =>
            /\ Len(ToolMessages(LastSent(r))) = Len(executed[r])
            /\ ToolMessages(current_messages[r]) = ToolMessages(LastSent(r))

\* the backend answered every call of request r and no tool call of the
\* request had a null function
Healthy(r) ==
    /\ Len(received[r]) = Len(sent[r])
    /\ \A k \in 1..Len(executed[r]) : executed[r][k].function.kind # "null"

\* C24: for every max_tool_iterations, 0 and negative values included,
\* chat_completion with a healthy backend returns a response and does not
\* fail with an internal error.
C24_ReturnsForEveryBound ==
    \A r \in Requests :
        (pc[r] \notin {"idle", "awaiting"} /\ Healthy(r)) =>
            /\ pc[r] = "returned"
            /\ returned[r] # <<>>

\* the terminal events of the stream of request r
Sentinels(r) == SelectSeq(http[r].events, LAMBDA e : e.type = "done")

\* C27: for every final response chat_completion returns, also one whose
\* content is null or absent, the synthesized stream ends with exactly one
\* terminal event, its last event.
C27_StreamEndsWithOneSentinel ==
    \A r \in Requests :
        (Streams(r) /\ gpc[r] = "done" /\ pc[r] = "returned") =>
            /\ ~http[r].aborted
            /\ Len(Sentinels(r)) = 1
            /\ http[r].events[Len(http[r].events)].type = "done"

(***************************************************************************)
(* Further properties of the tools.                                        *)
(***************************************************************************)
\* the positions of the file content at which old_string starts,
\* overlapping ones included; the empty string starts at every position
StartingPositions ==
    LET content == before.files[Location(Args.file_path)]
    IN  {i \in 1..(Len(content) + 1) : MatchAt(content, Args.old_string, i)}

\* C26: edit_file without replace_all modifies the file only when
\* old_string starts at exactly one position of the content, overlapping
\* occurrences and the empty old_string counted; otherwise the file is
\* left as it was.
C26_OnlyUnambiguousEdits ==
    (EditsAFile /\ ~ReplaceAll /\ Cardinality(StartingPositions) # 1) => fs = before

\* the call names a path that leads outside every allowed directory:
\* the file of write_file or edit_file, the working directory of run_command
HasDeniedPath ==
    \/ /\ call.tool \in {"write_file", "edit_file"}
       /\ "file_path" \in DOMAIN Args
       /\ ~Inside(Location(Args.file_path))
    \/ /\ call.tool = "run_command"
       /\ "working_directory" \in DOMAIN Args
       /\ ~Inside(Location(Args.working_directory))

\* no file made or changed, no directory made, no process launched
WorldUnchanged ==
    /\ fs.files = before.files
    /\ fs.dirs = before.dirs
    /\ fs.launched = before.launched

\* run_command turns the call down before it looks at the directory
RefusedEarlier ==
    IF call.tool # "run_command" THEN "no"
    ELSE IF ~allow_commands THEN "CommandsDisabled"
    ELSE IF /\ command_allowlist.configured
            /\ command_allowlist.prefixes # <<>>
            /\ ~InAllowlist(Args.command)
    THEN "NotInAllowlist"
    ELSE "no"

\* C25 as stated: a write_file, edit_file or run_command whose path
\* argument resolves outside every allowed directory leaves the world
\* unchanged and returns the access-denied text.
C25_DeniedCallsAnswerAccessDenied ==
    HasDeniedPath =>
        /\ WorldUnchanged
        /\ result.kind = "PermissionDenied"

\* C25, amended: such a call leaves the world unchanged; it returns the
\* access-denied text, except that a run_command turned down because
\* commands are disabled or the command is not in the allowlist returns
\* that refusal instead, the directory never looked at.
C25_DeniedCallsChangeNothing ==
    HasDeniedPath =>
        /\ WorldUnchanged
        /\ result.kind = IF RefusedEarlier = "no" THEN "PermissionDenied"
                         ELSE RefusedEarlier

\* a write_file below a directory that is not there, outside the sandbox
C25_Witness ==
    /\ call.tool = "write_file"
    /\ HasDeniedPath
    /\ \E a \in Ancestors(Location(Args.file_path)) : ~is_dir(before, a)
    /\ result.kind = "PermissionDenied"
    /\ fs = before

(***************************************************************************)
(* Properties of concurrent requests.                                      *)
(***************************************************************************)
\* the ids of the tool calls the backend asked of request r
OwnCallIds(r) ==
    UNION {{received[r][j].message.tool_calls.items[i].id :
                i \in 1..Len(received[r][j].message.tool_calls.items)} :
           j \in 1..Len(received[r])}

\* m belongs to the conversation of request r: a message of its input, an
\* assistant message the backend gave it, the result of a call asked of it
Own(r, m) ==
    \/ \E i \in 1..Len(input_messages[r]) : m = input_messages[r][i]
    \/ \E j \in 1..Len(received[r]) : m = received[r][j].message
    \/ m.role = "tool" /\ m.tool_call_id \in OwnCallIds(r)

AssistantMessages(messages) == SelectSeq(messages, LAMBDA m : m.role = "assistant")

\* the k-th request body sent for r: the input of r first, then only
\* messages of r, the assistant messages being the first k - 1 answers to r
OwnMessagesOnly(r, k) ==
    LET messages == sent[r][k]
    IN  /\ Len(messages) >= Len(input_messages[r])
        /\ SubSeq(messages, 1, Len(input_messages[r])) = input_messages[r]
        /\ \A i \in 1..Len(messages) : Own(r, messages[i])
        /\ AssistantMessages(messages) = [j \in 1..(k - 1) |-> received[r][j].message]

Isolated == \A r \in Requests : \A k \in 1..Len(sent[r]) : OwnMessagesOnly(r, k)

\* no step writes to the caller's message lists or to the configuration
InputsUntouched ==
    /\ input_messages' = input_messages
    /\ config_vars' = config_vars

\* C22: for every interleaving of two requests at their backend awaits,
\* every message list sent to the backend for a request holds only that
\* request's input, the assistant messages given to it and the results of
\* its tool calls; no step changes a caller's input message list or the
\* configuration.
C22_RequestsAreIsolated == []Isolated /\ [][InputsUntouched]_vars

\* both requests wait for the backend, each on its second round-trip
C22_Witness ==
    /\ \A r \in Requests : pc[r] = "awaiting" /\ Len(sent[r]) = 2
    /\ \A r \in Requests : Len(executed[r]) = 1

\* the event loop can hand the waiting task of request q an answer of the
\* backend: the task goes on to its tools, its next backend call or its
\* return
CanStep(q) == ENABLED (ConcurrentRespond(q) \/ Launch(q))

\* C21: running a shell command is a suspension point: while the command
\* of one request runs, another request that waits for the backend can
\* take its next step.
C21_OthersStepWhileACommandRuns ==
    \A r \in Requests : \A q \in Requests \ {r} :
        (pc[r] = "running" /\ pc[q] = "awaiting") => CanStep(q)

=============================================================================
